---- MODULE Spec2Model ----
(***************************************************************************)
(* A model of promkit-async: the event operator (src/src/operator.rs,      *)
(* src/src/event_buffer.rs) that buffers raw terminal events for a delay   *)
(* window and emits them as one batch of semantic groups, the state        *)
(* container StateHistory, and the component run loops that turn batches   *)
(* into panes.                                                             *)
(*                                                                         *)
(* Specifications:                                                         *)
(*   SpecGroup  the pure grouping function process_events, applied to      *)
(*              every input window drawn from Windows;                     *)
(*   Spec       the run loop of the operator task between its upstream     *)
(*              (raw event) channel and its downstream (batch) channel;    *)
(*   FairSpec   Spec with the fairness of the task, timer and channels;    *)
(*   SpecSnapshot  the holders of one StateHistory (src/src/state.rs)      *)
(*              calling update, rollback and current_mut concurrently;     *)
(*   SpecSync   the run loop of a SyncComponent / InputProcessor           *)
(*              (src/src/component/sync.rs, input_processor.rs);           *)
(*   FairSpecSync  SpecSync with the fairness of the task and its consumer;*)
(*   SpecLoading  the run loop of a LoadingComponent with its process      *)
(*              tasks and its spinner (src/src/component/loading.rs);      *)
(*   SpecEvaluator  the run loop of an Evaluator with its query and events *)
(*              tasks and its spinner (src/src/component/evaluate.rs);     *)
(*   SpecDebouncer  one debouncer task (spawn_debouncer of src/src/lib.rs, *)
(*              EventBuffer::run_resize);                                  *)
(*   SpecOrchestrator  run of src/src/lib.rs: terminal setup, main_task,   *)
(*              the resize debouncer, processor_task and the teardown;     *)
(*   SpecCoordinator  DisplayCoordinator::run with its version gate and    *)
(*              its spinner slots (src/src/display_coordinator.rs);        *)
(*   SpecSession  the tasks of run, their channels of capacity 1 and the   *)
(*              editor's RwLock (src/src/lib.rs);                          *)
(*   SpecWizard  run with the Wizard's process tasks, the Spinner and the  *)
(*              pane array (src/src/wizard.rs, src/src/lib.rs).            *)
(***************************************************************************)
EXTENDS Integers, Sequences, FiniteSets, TLC

VARIABLES
    \* ---- SpecGroup: one call of process_events ----
    events,      \* the window handed to process_events
    result,      \* what TimeBasedOperator::process_events returned
    bundles,     \* what EventBuffer::process_events returned
    called,      \* which of the two have been called: subset of Impls
    \* ---- Spec: the run loop ----
    impl,        \* which run loop this is: "TimeBasedOperator" or "EventBuffer"
    typed,       \* every raw event the terminal has put on the upstream channel
    receiver,    \* upstream channel content (events sent, not yet received)
    upClosed,    \* every upstream sender has been dropped
    buffer,      \* run's local `buffer`
    pc,          \* where run is: "select", "send", "done" (Ok) or "failed" (Err)
    pending,     \* the batch `sender.send(..)` is waiting to hand over
    channel,     \* downstream channel content (batches sent, not yet received)
    downClosed,  \* the downstream receiver has been dropped
    sent,        \* history: every batch the downstream channel accepted
    windows,     \* history: the buffer each batch of `sent` was built from
    \* ---- SpecSnapshot: one StateHistory shared by its holders ----
    current,     \* inner.current
    previous,    \* inner.previous: None or Some(value)
    lock,        \* the Mutex around inner: None, or Some(holder) that holds the guard
    hpc,         \* per holder: where its call is
    call,        \* per holder: the method it is in, or the last one it completed
    arg,         \* per holder: `new_state` of its update
    prev,        \* per holder: `prev` bound by `inner.previous.take()` in rollback
    cloned,      \* per holder: `current` cloned out by current_mut
    clonedAt,    \* history, per holder: how many calls had locked when it cloned
    fres,        \* per holder: `result` its closure f returned in current_mut
    ret,         \* per holder: what its last completed call returned
    log,         \* history: the calls in the order they acquired the lock
    \* ---- SpecSync: the run loop of a SyncComponent / InputProcessor ----
    syncRx,        \* input channel content (batches sent, not yet received)
    syncRxClosed,  \* every sender of the input channel has been dropped
    syncPc,        \* where run is: "recv", "process", "send" or "done"
    event_groups,  \* the batch bound by `while let Some(event_groups)`
    syncSelf,      \* the component's own state: the batches it has applied
    pane,          \* the pane process_event returned, None outside "send"
    syncTx,        \* output channel content (panes sent, not yet received)
    syncTxClosed,  \* the receiver of the output channel has been dropped
    syncOffered,   \* history: how many batches were sent to the component
    syncReceived,  \* history: the batches run received, in order
    syncCalls,     \* history: the batches process_event was called with, in order
    syncPublished, \* history: the panes the output channel accepted, in order
    \* ---- SpecLoading: LoadingComponent::run, its tasks and its spinner ----
    loadRx,        \* input channel content (batches sent, not yet received)
    loadRxClosed,  \* every sender of the input channel has been dropped
    loadTx,        \* output channel content (panes sent, not yet received)
    loadTxClosed,  \* the receiver of the output channel has been dropped
    loadPc,        \* where run is: "select", "abort" (after task.abort()) or "done"
    inputs,        \* the batch bound by `Some(inputs) = rx.recv()`
    current_task,  \* None or Some(index into tasks)
    tasks,         \* every process_task spawned so far, in spawn order
    is_loading,    \* loading_state.is_loading
    frame_index,   \* loading_state.frame_index
    spinPc,        \* where loading_task is: "tick", "send", "send_wait", "done", "cancelled"
    loading_pane,  \* the frame loading_task is sending, None outside its send
    spinAborted,   \* loading_task.abort() has been called
    loadOffered,   \* history: how many batches were sent to the component
    loadPublished, \* history: the batches whose result pane the output accepted
    rollbacks,     \* history: how many times run called rollback_state
    \* ---- SpecEvaluator: the run loop of an Evaluator ----
    evQueryRx,       \* query_rx: the queries sent and not yet received
    evQueryClosed,   \* every sender of query_rx has been dropped
    evEventsRx,      \* events_rx: the batches sent and not yet received
    evEventsClosed,  \* every sender of events_rx has been dropped
    evTx,            \* tx: the panes sent and not yet received
    evTxClosed,      \* the receiver of tx has been dropped
    evPc,            \* where run is: "select", "abort_prev", "drain", "drain_abort", "done"
    event_queue,     \* the pending batches (VecDeque)
    evCurrentTask,   \* current_task: None or Some(index into evTasks)
    evTasks,         \* every process_task spawned so far, in spawn order
    evState,         \* loading_state.state: "Idle", "ProcessQuery", "ProcessEvents"
    evFrameIndex,    \* loading_state.frame_index
    evSpinPc,        \* where loading_task is: "tick", "send", "send_wait", "done", "cancelled"
    evLoadingPane,   \* the frame loading_task is sending, None outside its send
    evSpinAborted,   \* loading_task.abort() has been called
    evQueries,       \* history: how many queries were sent to the evaluator
    evBatches,       \* history: how many batches were sent to the evaluator
    \* ---- SpecDebouncer: one debouncer task ----
    debImpl,       \* which debouncer: "spawn_debouncer" or "run_resize"
    debounce_rx,   \* the values sent to the debouncer and not yet received
    debRxClosed,   \* every sender of debounce_rx has been dropped
    last_query,    \* the retained value (last_query / last_event): None or Some(v)
    debPc,         \* where the task is: "select", "send", "done", "failed", "cancelled"
    text,          \* the value taken out of last_query that is being sent
    last_tx,       \* the outputs sent and not yet received
    debTxClosed,   \* the receiver of last_tx has been dropped
    debAborted,    \* abort() has been called on the debouncer's handle
    debOffered,    \* history: how many values were sent to the debouncer
    debReceived,   \* history: the values the debouncer received, in order
    debMark,       \* history: how many values had been received at the last flush
    debEmitted,    \* history: the outputs last_tx accepted, in order
    \* ---- SpecOrchestrator: run of src/src/lib.rs ----
    orchPc,        \* where run is
    raw_mode,      \* the terminal is in raw mode
    cursor_hidden, \* the cursor is hidden
    orchRet,       \* what run returned: None, Some("Ok") or Some("Err")
    mainPc,        \* where main_task is
    resize,        \* the (width, height) main_task is sending, or None
    procPc,        \* where processor_task is
    orchAborted,  \* the handles run has called abort() on
    \* ---- SpecCoordinator: DisplayCoordinator::run ----
    loading_activation_rx, \* the (version, index) activations sent and not yet received
    indexed_pane_rx,       \* the (version, index, pane) triplets sent and not yet received
    dcSendersDropped,      \* every sender of both channels has been dropped
    dcPc,          \* where run is: "select", "done" (Ok) or "err" (a draw failed)
    version,       \* the global version (AtomicUsize)
    panes,         \* the pane shown in each slot
    actives,       \* actives[index]: the slot shows the spinner
    frame_indexes, \* frame_indexes[index]: the next spinner frame of the slot
    dcDrawn,       \* the pane vector the terminal drew last, or None
    dcSyncs,       \* history: how many versions the renderer has started
    dcLazy,  \* the versions whose lazy task has not yet sent its pane
    \* ---- SpecSession: the tasks of run (src/src/lib.rs) and their channels ----
    sesMainPc,          \* where main_task is
    sesProcPc,          \* where processor_task is
    editor_lock,        \* shared_editor (RwLock): "free" or "main" (write guard held)
    debounce_resize_rx, \* the areas main_task sent and the resize debouncer has not received
    rszLastQuery,       \* what the resize debouncer retains: None or Some(area)
    rszPc,              \* where the resize debouncer is: "select" or "send"
    rszText,            \* the area the resize debouncer is sending, or None
    last_resize_rx,     \* the areas debounced and not yet received by processor_task
    sesEvents,  \* history: how many terminal events main_task has taken
    \* ---- SpecWizard: run of src/src/lib.rs with the Wizard and the Spinner ----
    wizRunPc,         \* where run is: "loading", "loaded", "init_pane", "join", "returned"
    wizRet,           \* what run returned: None, Some("Ok") or Some("Err")
    wizMainPc,        \* where main_task is: "select", "ok", "err"
    wizProcPc,        \* where processor_task is
    ctx_state,        \* Context.state: "Idle", "Loading", "ProcessQuery"
    ctx_current_task, \* Context.current_task: None or Some(index into wizTasks)
    wizTasks,         \* every process task spawned so far, in spawn order
    process_task,     \* the handle evaluate / write_on_resize has not yet stored
    shared_panes,     \* the pane of each PaneIndex
    wizDrawn,         \* the pane array the terminal drew last, or None
    wizSpinPc,        \* where the spin task is: "tick", "write", "cancelled"
    wizFrameIndex,    \* frame_index of the spin task
    wizAborted,       \* the handles run has called abort() on
    wizInputs         \* history: how many queries and areas processor_task has taken

groupVars == <<events, result, bundles, called>>
runVars == <<impl, typed, receiver, upClosed, buffer, pc, pending, channel,
             downClosed, sent, windows>>
snapVars == <<current, previous, lock, hpc, call, arg, prev, cloned, clonedAt, fres,
              ret, log>>
syncVars == <<syncRx, syncRxClosed, syncPc, event_groups, syncSelf, pane, syncTx,
              syncTxClosed, syncOffered, syncReceived, syncCalls, syncPublished>>
loadVars == <<loadRx, loadRxClosed, loadTx, loadTxClosed, loadPc, inputs, current_task,
              tasks, is_loading, frame_index, spinPc, loading_pane, spinAborted,
              loadOffered, loadPublished, rollbacks>>
evalVars == <<evQueryRx, evQueryClosed, evEventsRx, evEventsClosed, evTx, evTxClosed,
              evPc, event_queue, evCurrentTask, evTasks, evState, evFrameIndex,
              evSpinPc, evLoadingPane, evSpinAborted, evQueries, evBatches>>
debVars == <<debImpl, debounce_rx, debRxClosed, last_query, debPc, text, last_tx,
             debTxClosed, debAborted, debOffered, debReceived, debMark, debEmitted>>
orchVars == <<orchPc, raw_mode, cursor_hidden, orchRet, mainPc, resize, procPc,
              orchAborted>>
coordVars == <<loading_activation_rx, indexed_pane_rx, dcSendersDropped, dcPc, version,
               panes, actives, frame_indexes, dcDrawn, dcSyncs, dcLazy>>
sessVars == <<sesMainPc, sesProcPc, editor_lock, debounce_resize_rx, rszLastQuery,
              rszPc, rszText, last_resize_rx, sesEvents>>
wizVars == <<wizRunPc, wizRet, wizMainPc, wizProcPc, ctx_state, ctx_current_task,
             wizTasks, process_task, shared_panes, wizDrawn, wizSpinPc, wizFrameIndex,
             wizAborted, wizInputs>>
componentVars == <<snapVars, syncVars, loadVars, evalVars, debVars, orchVars,
                   coordVars, sessVars, wizVars>>
nonSnapVars == <<groupVars, runVars, syncVars, loadVars, evalVars, debVars, orchVars,
                 coordVars, sessVars, wizVars>>
nonSyncVars == <<groupVars, runVars, snapVars, loadVars, evalVars, debVars, orchVars,
                 coordVars, sessVars, wizVars>>
nonLoadVars == <<groupVars, runVars, snapVars, syncVars, evalVars, debVars, orchVars,
                 coordVars, sessVars, wizVars>>
nonEvalVars == <<groupVars, runVars, snapVars, syncVars, loadVars, debVars, orchVars,
                 coordVars, sessVars, wizVars>>
nonOrchVars == <<groupVars, runVars, snapVars, syncVars, loadVars, evalVars, coordVars,
                 sessVars, wizVars>>
nonCoordVars == <<groupVars, runVars, snapVars, syncVars, loadVars, evalVars, debVars,
                  orchVars, sessVars, wizVars>>
nonSessVars == <<groupVars, runVars, snapVars, syncVars, loadVars, evalVars, debVars,
                 orchVars, coordVars, wizVars>>
nonWizVars == <<groupVars, runVars, snapVars, syncVars, loadVars, evalVars, debVars,
                orchVars, coordVars, sessVars>>
vars == <<groupVars, runVars, componentVars>>

Impls == {"TimeBasedOperator", "EventBuffer"}

(***************************************************************************)
(* Bounds of the model.                                                    *)
(***************************************************************************)
\* longest window enumerated exhaustively for process_events
MaxLen == 4
\* most raw events the terminal types in one run of the loop
MaxTyped == 3

(***************************************************************************)
(* crossterm::event::Event, as far as the operator looks into it.          *)
(***************************************************************************)
KeyEvent(code, ch, modifiers, kind, state) ==
    [type |-> "Key", code |-> code, ch |-> ch, modifiers |-> modifiers,
     kind |-> kind, state |-> state]

Resize(width, height) == [type |-> "Resize", width |-> width, height |-> height]

Press(code, ch, modifiers) == KeyEvent(code, ch, modifiers, "Press", "NONE")

KeyA == Press("Char", "a", "NONE")
KeyB == Press("Char", "b", "NONE")
KeyC == Press("Char", "c", "NONE")
KeyD == Press("Char", "d", "NONE")
KeyE == Press("Char", "e", "NONE")
KeyF == Press("Char", "f", "NONE")
ShiftB == Press("Char", "B", "SHIFT")
CtrlF == Press("Char", "f", "CONTROL")
CtrlD == Press("Char", "d", "CONTROL")
Enter == Press("Enter", "", "NONE")
KeyUp == Press("Up", "", "NONE")
KeyDown == Press("Down", "", "NONE")
KeyLeft == Press("Left", "", "NONE")
KeyRight == Press("Right", "", "NONE")
\* a key release of 'a', a Ctrl-Up and a caps-lock 'a': none matches extract_char,
\* Ctrl-Up still matches detect_vertical_direction (its pattern ignores modifiers)
ReleaseA == KeyEvent("Char", "a", "NONE", "Release", "NONE")
CapsA == KeyEvent("Char", "a", "NONE", "Press", "CAPS_LOCK")
CtrlUp == Press("Up", "", "CONTROL")
Resize128 == Resize(128, 128)
Resize64 == Resize(64, 64)

(***************************************************************************)
(* event::Event / event_buffer::EventBundle: the grouped alphabet.         *)
(***************************************************************************)
KeyBuffer(chars) == [variant |-> "KeyBuffer", chars |-> chars]
VerticalCursorBuffer(up, down) ==
    [variant |-> "VerticalCursorBuffer", up |-> up, down |-> down]
HorizontalCursorBuffer(left, right) ==
    [variant |-> "HorizontalCursorBuffer", left |-> left, right |-> right]
LastResize(width, height) ==
    [variant |-> "LastResize", width |-> width, height |-> height]
Others(event, count) == [variant |-> "Others", event |-> event, count |-> count]

(***************************************************************************)
(* Option<T> is a sequence of length 0 (None) or 1 (Some).                 *)
(***************************************************************************)
None == <<>>
Some(x) == <<x>>

(***************************************************************************)
(* The helpers of process_events.                                          *)
(***************************************************************************)
extract_char(event) ==
    IF /\ event.type = "Key"
       /\ event.code = "Char"
       /\ event.modifiers \in {"NONE", "SHIFT"}
       /\ event.kind = "Press"
       /\ event.state = "NONE"
    THEN Some(event.ch)
    ELSE None

detect_vertical_direction(event) ==
    IF event.type = "Key" /\ event.code = "Up" THEN Some(<<1, 0>>)
    ELSE IF event.type = "Key" /\ event.code = "Down" THEN Some(<<0, 1>>)
    ELSE None

detect_horizontal_direction(event) ==
    IF event.type = "Key" /\ event.code = "Left" THEN Some(<<1, 0>>)
    ELSE IF event.type = "Key" /\ event.code = "Right" THEN Some(<<0, 1>>)
    ELSE None

\* The locals of process_events at its first line.
Locals ==
    [result |-> <<>>, current_chars |-> <<>>, current_vertical |-> <<0, 0>>,
     current_horizontal |-> <<0, 0>>, current_others |-> None,
     last_resize |-> None, resize_index |-> None]

\* Faulty variant: pushes the KeyBuffer and forgets `chars.clear()`.
flush_char_buffer_NoClear(st) ==
    IF st.current_chars # <<>>
    THEN [st EXCEPT !.result = Append(@, KeyBuffer(st.current_chars))]
    ELSE st

flush_char_buffer(st) ==
    IF st.current_chars # <<>>
    THEN [st EXCEPT !.result = Append(@, KeyBuffer(st.current_chars)),
                    !.current_chars = <<>>]
    ELSE st

\* Faulty variant: no `if *vertical != (0, 0)` guard.
flush_vertical_buffer_Unguarded(st) ==
    [st EXCEPT !.result = Append(@, VerticalCursorBuffer(
                              st.current_vertical[1], st.current_vertical[2])),
               !.current_vertical = <<0, 0>>]

flush_vertical_buffer(st) ==
    IF st.current_vertical # <<0, 0>>
    THEN [st EXCEPT !.result = Append(@, VerticalCursorBuffer(
                                   st.current_vertical[1], st.current_vertical[2])),
                    !.current_vertical = <<0, 0>>]
    ELSE st

flush_horizontal_buffer(st) ==
    IF st.current_horizontal # <<0, 0>>
    THEN [st EXCEPT !.result = Append(@, HorizontalCursorBuffer(
                                   st.current_horizontal[1], st.current_horizontal[2])),
                    !.current_horizontal = <<0, 0>>]
    ELSE st

flush_others_buffer(st) ==
    IF st.current_others # None
    THEN [st EXCEPT !.result = Append(@, Others(st.current_others[1][1],
                                                st.current_others[1][2])),
                    !.current_others = None]
    ELSE st

flush_non_char_buffers(st) ==
    flush_others_buffer(flush_horizontal_buffer(flush_vertical_buffer(st)))

flush_all_buffers(st) ==
    flush_others_buffer(flush_horizontal_buffer(flush_vertical_buffer(
        flush_char_buffer(st))))

(***************************************************************************)
(* The arms of the match in TimeBasedOperator::process_events.             *)
(***************************************************************************)
\* Faulty variant: the index is recorded at the first resize of the window only.
ResizeArm_FirstIndexOnly(st, event) ==
    LET f == flush_all_buffers(st)
    IN  [f EXCEPT !.last_resize = Some(<<event.width, event.height>>),
                  !.resize_index = IF @ = None THEN Some(Len(f.result)) ELSE @]

\* Faulty variant: the dimensions are recorded at the first resize of the window only.
ResizeArm_FirstDimensionsOnly(st, event) ==
    LET f == flush_all_buffers(st)
    IN  [f EXCEPT !.last_resize =
                      IF @ = None THEN Some(<<event.width, event.height>>) ELSE @,
                  !.resize_index = Some(Len(f.result))]

ResizeArm(st, event) ==
    LET f == flush_all_buffers(st)
    IN  [f EXCEPT !.last_resize = Some(<<event.width, event.height>>),
                  !.resize_index = Some(Len(f.result))]

CharArm(st, event) ==
    LET f == flush_non_char_buffers(st)
    IN  [f EXCEPT !.current_chars = Append(@, extract_char(event)[1])]

\* Faulty variant: flushes every buffer, the vertical one included.
VerticalArm_FlushesAll(st, event) ==
    LET d == detect_vertical_direction(event)[1]
        f == flush_all_buffers(st)
    IN  [f EXCEPT !.current_vertical = <<@[1] + d[1], @[2] + d[2]>>]

VerticalArm(st, event) ==
    LET d == detect_vertical_direction(event)[1]
        f == flush_others_buffer(flush_horizontal_buffer(flush_char_buffer(st)))
    IN  [f EXCEPT !.current_vertical = <<@[1] + d[1], @[2] + d[2]>>]

HorizontalArm(st, event) ==
    LET d == detect_horizontal_direction(event)[1]
        f == flush_others_buffer(flush_vertical_buffer(flush_char_buffer(st)))
    IN  [f EXCEPT !.current_horizontal = <<@[1] + d[1], @[2] + d[2]>>]

\* Faulty variant: counts any other event into the pending Others, equal or not.
OthersArm_NoComparison(st, event) ==
    LET f == flush_horizontal_buffer(flush_vertical_buffer(flush_char_buffer(st)))
    IN  IF f.current_others # None
        THEN [f EXCEPT !.current_others = Some(<<@[1][1], @[1][2] + 1>>)]
        ELSE [flush_others_buffer(f) EXCEPT !.current_others = Some(<<event, 1>>)]

OthersArm(st, event) ==
    LET f == flush_horizontal_buffer(flush_vertical_buffer(flush_char_buffer(st)))
    IN  IF f.current_others # None /\ f.current_others[1][1] = event
        THEN [f EXCEPT !.current_others = Some(<<event, @[1][2] + 1>>)]
        ELSE [flush_others_buffer(f) EXCEPT !.current_others = Some(<<event, 1>>)]

\* One iteration of `for event in events` in TimeBasedOperator::process_events.
MatchEvent(st, event) ==
    IF event.type = "Resize" THEN ResizeArm(st, event)
    ELSE IF extract_char(event) # None THEN CharArm(st, event)
    ELSE IF detect_vertical_direction(event) # None THEN VerticalArm(st, event)
    ELSE IF detect_horizontal_direction(event) # None THEN HorizontalArm(st, event)
    ELSE OthersArm(st, event)

\* One iteration of `for event in events` in EventBuffer::process_events: the same
\* chain without the Resize arm, so a resize is one of the "other" events.
EventBufferMatchEvent(st, event) ==
    IF extract_char(event) # None THEN CharArm(st, event)
    ELSE IF detect_vertical_direction(event) # None THEN VerticalArm(st, event)
    ELSE IF detect_horizontal_direction(event) # None THEN HorizontalArm(st, event)
    ELSE OthersArm(st, event)

\* `for event in events`, from the i-th event on. (The test on st.result is never
\* true; it has the locals of one iteration evaluated before the next begins.)
RECURSIVE Walk(_, _, _)
Walk(st, evs, i) ==
    IF i > Len(evs) \/ Len(st.result) < 0 THEN st
    ELSE Walk(MatchEvent(st, evs[i]), evs, i + 1)

RECURSIVE EventBufferWalk(_, _, _)
EventBufferWalk(st, evs, i) ==
    IF i > Len(evs) \/ Len(st.result) < 0 THEN st
    ELSE EventBufferWalk(EventBufferMatchEvent(st, evs[i]), evs, i + 1)

\* Vec::insert(idx, x)
Insert(seq, idx, x) ==
    SubSeq(seq, 1, idx) \o <<x>> \o SubSeq(seq, idx + 1, Len(seq))

\* Faulty variant: `result.push(..)` instead of `result.insert(idx, ..)`.
InsertLastResize_Push(st) ==
    IF st.last_resize # None /\ st.resize_index # None
    THEN Append(st.result, LastResize(st.last_resize[1][1], st.last_resize[1][2]))
    ELSE st.result

\* `if let (Some((width, height)), Some(idx)) = (last_resize, resize_index)`
InsertLastResize(st) ==
    IF st.last_resize # None /\ st.resize_index # None
    THEN Insert(st.result, st.resize_index[1],
                LastResize(st.last_resize[1][1], st.last_resize[1][2]))
    ELSE st.result

\* TimeBasedOperator::process_events
process_events(evs) ==
    InsertLastResize(flush_all_buffers(Walk(Locals, evs, 1)))

\* EventBuffer::process_events
EventBuffer_process_events(evs) ==
    flush_all_buffers(EventBufferWalk(Locals, evs, 1)).result

(***************************************************************************)
(* The windows process_events is applied to: every sequence of at most     *)
(* MaxLen events over Alphabet, and the windows of the repository's tests. *)
(***************************************************************************)
Alphabet ==
    {KeyA, ShiftB, KeyUp, KeyDown, KeyLeft, KeyRight, CtrlF, CtrlD,
     Resize128, Resize64}

BoundedSeq(S, n) == UNION {[1..k -> S] : k \in 0..n}

\* operator.rs tests::process_events::test
TestEvents17 ==
    <<KeyA, ShiftB, KeyC, Resize128, KeyUp, KeyDown, KeyUp, KeyLeft, KeyRight,
      KeyLeft, CtrlF, CtrlF, CtrlF, CtrlD, KeyUp, Resize64, KeyD>>

TestExpected17 ==
    <<KeyBuffer(<<"a", "B", "c">>), VerticalCursorBuffer(2, 1),
      HorizontalCursorBuffer(2, 1), Others(CtrlF, 3), Others(CtrlD, 1),
      VerticalCursorBuffer(1, 0), LastResize(64, 64), KeyBuffer(<<"d">>)>>

\* event_buffer.rs tests::process_events::test
TestEvents15 ==
    <<KeyA, ShiftB, KeyC, KeyUp, KeyDown, KeyUp, KeyLeft, KeyRight, KeyLeft,
      CtrlF, CtrlF, CtrlF, CtrlD, KeyUp, KeyD>>

TestExpected15 ==
    <<KeyBuffer(<<"a", "B", "c">>), VerticalCursorBuffer(2, 1),
      HorizontalCursorBuffer(2, 1), Others(CtrlF, 3), Others(CtrlD, 1),
      VerticalCursorBuffer(1, 0), KeyBuffer(<<"d">>)>>

\* tests::process_events::test_only_others (both files)
TestOnlyOthers == <<Enter>>

\* windows with events whose modifiers, kind or state decide the arm
TestModifiers == <<KeyA, ReleaseA, CapsA, CapsA, CtrlUp, KeyUp, Resize64, ReleaseA>>

Windows ==
    BoundedSeq(Alphabet, MaxLen)
        \cup {TestEvents17, TestEvents15, TestOnlyOthers, TestModifiers}

(***************************************************************************)
(* The run loop's idle state, shared by both specifications.               *)
(***************************************************************************)
RunInit ==
    /\ impl \in Impls
    /\ typed = <<>>
    /\ receiver = <<>>
    /\ upClosed = FALSE
    /\ buffer = <<>>
    /\ pc = "select"
    /\ pending = <<>>
    /\ channel = <<>>
    /\ downClosed = FALSE
    /\ sent = <<>>
    /\ windows = <<>>

GroupIdle ==
    /\ events = <<>>
    /\ result = <<>>
    /\ bundles = <<>>
    /\ called = {}

(***************************************************************************)
(* StateHistory<T> (src/src/state.rs; the same code in src/src/component.rs*)
(* with current_mut named modify): `current`, `previous: Option<T>` behind *)
(* an Arc<Mutex<..>> that every clone of the handle shares.                *)
(***************************************************************************)
\* the tasks that hold a clone of the StateHistory
Holders == {"h1", "h2"}

\* the values of T
Values == {"x0", "x1", "x2"}

\* StateHistory::new(initial), no call in progress
new(initial) ==
    /\ current = initial
    /\ previous = None
    /\ lock = None
    /\ hpc = [h \in Holders |-> "idle"]
    /\ call = [h \in Holders |-> "none"]
    /\ arg = [h \in Holders |-> None]
    /\ prev = [h \in Holders |-> None]
    /\ cloned = [h \in Holders |-> None]
    /\ clonedAt = [h \in Holders |-> 0]
    /\ fres = [h \in Holders |-> None]
    /\ ret = [h \in Holders |-> None]
    /\ log = <<>>

SnapshotIdle == new("x0")

(***************************************************************************)
(* A SyncComponent / InputProcessor before its run loop has received       *)
(* anything (src/src/component/sync.rs, input_processor.rs).               *)
(***************************************************************************)
SyncIdle ==
    /\ syncRx = <<>>
    /\ syncRxClosed = FALSE
    /\ syncPc = "recv"
    /\ event_groups = None
    /\ syncSelf = <<>>
    /\ pane = None
    /\ syncTx = <<>>
    /\ syncTxClosed = FALSE
    /\ syncOffered = 0
    /\ syncReceived = <<>>
    /\ syncCalls = <<>>
    /\ syncPublished = <<>>

(***************************************************************************)
(* A LoadingComponent when run has set up current_task = None, the         *)
(* loading_state and the spinner task, and has not yet received anything   *)
(* (src/src/component/loading.rs:24-58; the same code in component.rs).    *)
(***************************************************************************)
LoadingIdle ==
    /\ loadRx = <<>>
    /\ loadRxClosed = FALSE
    /\ loadTx = <<>>
    /\ loadTxClosed = FALSE
    /\ loadPc = "select"
    /\ inputs = None
    /\ current_task = None
    /\ tasks = <<>>
    /\ is_loading = FALSE
    /\ frame_index = 0
    /\ spinPc = "tick"
    /\ loading_pane = None
    /\ spinAborted = FALSE
    /\ loadOffered = 0
    /\ loadPublished = <<>>
    /\ rollbacks = 0

(***************************************************************************)
(* An Evaluator whose run has just set up current_task, loading_state,     *)
(* event_queue and the spinner task, and has not yet received anything     *)
(* (src/src/component/evaluate.rs:36-72).                                  *)
(***************************************************************************)
EvaluatorIdle ==
    /\ evQueryRx = <<>>
    /\ evQueryClosed = FALSE
    /\ evEventsRx = <<>>
    /\ evEventsClosed = FALSE
    /\ evTx = <<>>
    /\ evTxClosed = FALSE
    /\ evPc = "select"
    /\ event_queue = <<>>
    /\ evCurrentTask = None
    /\ evTasks = <<>>
    /\ evState = "Idle"
    /\ evFrameIndex = 0
    /\ evSpinPc = "tick"
    /\ evLoadingPane = None
    /\ evSpinAborted = FALSE
    /\ evQueries = 0
    /\ evBatches = 0

(***************************************************************************)
(* A debouncer that has not yet received anything (src/src/lib.rs:45,      *)
(* src/src/event_buffer.rs:67), and run of src/src/lib.rs not yet called.  *)
(***************************************************************************)
DebouncerIdle ==
    /\ debounce_rx = <<>>
    /\ debRxClosed = FALSE
    /\ last_query = None
    /\ debPc = "select"
    /\ text = None
    /\ last_tx = <<>>
    /\ debTxClosed = FALSE
    /\ debAborted = FALSE
    /\ debOffered = 0
    /\ debReceived = <<>>
    /\ debMark = 0
    /\ debEmitted = <<>>

RunNotCalled ==
    /\ orchPc = "enable_raw_mode"
    /\ raw_mode = FALSE
    /\ cursor_hidden = FALSE
    /\ orchRet = None
    /\ mainPc = "unspawned"
    /\ resize = None
    /\ procPc = "unspawned"
    /\ orchAborted = {}

OrchestratorIdle == debImpl = "spawn_debouncer" /\ DebouncerIdle /\ RunNotCalled

(***************************************************************************)
(* A DisplayCoordinator as `new` leaves it                                 *)
(* (src/src/display_coordinator.rs:28-51): version 0, no slot active,      *)
(* every frame index 0, the panes it was given; run not yet started.       *)
(***************************************************************************)
\* the pane slots of the coordinator (indexes of the pane vector)
Slots == 0..1

CoordinatorIdle ==
    /\ loading_activation_rx = <<>>
    /\ indexed_pane_rx = <<>>
    /\ dcSendersDropped = FALSE
    /\ dcPc = "select"
    /\ version = 0
    /\ panes = [i \in Slots |-> <<"init", i>>]
    /\ actives = [i \in Slots |-> FALSE]
    /\ frame_indexes = [i \in Slots |-> 0]
    /\ dcDrawn = None
    /\ dcSyncs = 0
    /\ dcLazy = {}

(***************************************************************************)
(* The tasks of run (src/src/lib.rs:103-209) as they are when main_task is *)
(* spawned: empty channels of capacity 1, the editor lock free, the        *)
(* processor still in wiz.loading (line 170).                              *)
(***************************************************************************)
SessionIdle ==
    /\ sesMainPc = "select"
    /\ sesProcPc = "loading"
    /\ editor_lock = "free"
    /\ debounce_resize_rx = <<>>
    /\ rszLastQuery = None
    /\ rszPc = "select"
    /\ rszText = None
    /\ last_resize_rx = <<>>
    /\ sesEvents = 0

(***************************************************************************)
(* run of src/src/lib.rs at line 117: the terminal drew the initial panes, *)
(* the context is new (src/src/wizard.rs:38-44), the spin task and         *)
(* main_task are spawned, wiz.loading is about to be called.               *)
(***************************************************************************)
\* PaneIndex (src/src/lib.rs:18-23)
PaneIndex == {"Editor", "Hint", "Suggst", "Data"}

WizardIdle ==
    /\ wizRunPc = "loading"
    /\ wizRet = None
    /\ wizMainPc = "select"
    /\ wizProcPc = "unspawned"
    /\ ctx_state = "Idle"
    /\ ctx_current_task = None
    /\ wizTasks = <<>>
    /\ process_task = None
    /\ shared_panes = [i \in PaneIndex |-> <<"init", i>>]
    /\ wizDrawn = Some(shared_panes)
    /\ wizSpinPc = "tick"
    /\ wizFrameIndex = 0
    /\ wizAborted = {}
    /\ wizInputs = 0

ComponentsIdle ==
    /\ SnapshotIdle
    /\ SyncIdle
    /\ LoadingIdle
    /\ EvaluatorIdle
    /\ OrchestratorIdle
    /\ CoordinatorIdle
    /\ SessionIdle
    /\ WizardIdle

(***************************************************************************)
(* SpecGroup: process_events applied to one window.                        *)
(***************************************************************************)
GroupInit ==
    /\ events \in Windows
    /\ result = <<>>
    /\ bundles = <<>>
    /\ called = {}
    /\ RunInit
    /\ impl = "TimeBasedOperator"
    /\ ComponentsIdle

CallTimeBased ==
    /\ "TimeBasedOperator" \notin called
    /\ result' = process_events(events)
    /\ called' = called \cup {"TimeBasedOperator"}
    /\ UNCHANGED <<events, bundles, runVars, componentVars>>

CallEventBuffer ==
    /\ "EventBuffer" \notin called
    /\ bundles' = EventBuffer_process_events(events)
    /\ called' = called \cup {"EventBuffer"}
    /\ UNCHANGED <<events, result, runVars, componentVars>>

GroupNext == CallTimeBased \/ CallEventBuffer

SpecGroup == GroupInit /\ [][GroupNext]_vars

(***************************************************************************)
(* Spec: TimeBasedOperator::run / EventBuffer::run.                        *)
(*                                                                         *)
(*   loop { select! { recv() => Some: push, None: break;                   *)
(*                    delay  => if !buffer.is_empty() { send; clear } } }  *)
(*                                                                         *)
(* The terminal types onto the upstream channel and may drop its sender;   *)
(* the consumer of batches receives from the downstream channel and may    *)
(* drop its receiver. Both channels are tokio mpsc channels of depth 1.    *)
(***************************************************************************)
ChannelDepth == 1

\* what the terminal types: any event of RunAlphabet, at most MaxTyped of them, or
\* the six keys a b c d e f one after the other
RunAlphabet == {KeyA, KeyUp, Resize64}
TypedABCDEF == <<KeyA, KeyB, KeyC, KeyD, KeyE, KeyF>>

IsPrefix(s, t) == Len(s) <= Len(t) /\ SubSeq(t, 1, Len(s)) = s

CanType(s) ==
    \/ Len(s) <= MaxTyped /\ \A i \in 1..Len(s) : s[i] \in RunAlphabet
    \/ IsPrefix(s, TypedABCDEF)

\* the process_events of the implementation that runs
Process(evs) ==
    IF impl = "TimeBasedOperator" THEN process_events(evs)
    ELSE EventBuffer_process_events(evs)

Init == RunInit /\ GroupIdle /\ ComponentsIdle

\* the terminal sends one raw event (the channel has room for it)
Type(e) ==
    /\ ~upClosed
    /\ Len(receiver) < ChannelDepth
    /\ CanType(Append(typed, e))
    /\ typed' = Append(typed, e)
    /\ receiver' = Append(receiver, e)
    /\ UNCHANGED <<impl, upClosed, buffer, pc, pending, channel, downClosed, sent,
                   windows, groupVars, componentVars>>

\* the last upstream sender is dropped
CloseUpstream ==
    /\ ~upClosed
    /\ upClosed' = TRUE
    /\ UNCHANGED <<impl, typed, receiver, buffer, pc, pending, channel, downClosed,
                   sent, windows, groupVars, componentVars>>

\* select!: `receiver.recv()` yields Some(event): `buffer.push(event)`
RecvEvent ==
    /\ pc = "select"
    /\ receiver # <<>>
    /\ buffer' = Append(buffer, Head(receiver))
    /\ receiver' = Tail(receiver)
    /\ UNCHANGED <<impl, typed, upClosed, pc, pending, channel, downClosed, sent,
                   windows, groupVars, componentVars>>

\* select!: `receiver.recv()` yields None (closed and empty): `break`, then Ok(())
RecvNone ==
    /\ pc = "select"
    /\ receiver = <<>>
    /\ upClosed
    /\ pc' = "done"
    /\ UNCHANGED <<impl, typed, receiver, upClosed, buffer, pending, channel,
                   downClosed, sent, windows, groupVars, componentVars>>

\* Faulty variant: no `if !buffer.is_empty()` (and no `if !bundles.is_empty()`).
DelayElapsed_NoEmptinessCheck ==
    /\ pc = "select"
    /\ receiver = <<>>
    /\ ~upClosed
    /\ pending' = Process(buffer)
    /\ pc' = "send"
    /\ UNCHANGED <<impl, typed, receiver, upClosed, buffer, channel, downClosed,
                   sent, windows, groupVars, componentVars>>

\* select!: the delay, created when this iteration of the loop began, elapses. The
\* recv branch was never ready in the meantime: no event is waiting and the
\* upstream is open (a waiting event or a closed upstream completes recv() at once,
\* before a fresh timer can fire).
DelayElapsed ==
    /\ pc = "select"
    /\ receiver = <<>>
    /\ ~upClosed
    /\ LET sends == buffer # <<>> /\ (impl = "EventBuffer" \/ Process(buffer) # <<>>)
       IN  /\ pending' = IF sends THEN Process(buffer) ELSE pending
           /\ pc' = IF sends THEN "send" ELSE pc
           \* `buffer.clear()` right away when there is no batch to send
           /\ buffer' = IF sends THEN buffer ELSE <<>>
    /\ UNCHANGED <<impl, typed, receiver, upClosed, channel, downClosed, sent,
                   windows, groupVars, componentVars>>

\* Faulty variant: the batch is handed over and `buffer.clear()` is forgotten.
SendCompletes_NoClear ==
    /\ pc = "send"
    /\ ~downClosed
    /\ Len(channel) < ChannelDepth
    /\ channel' = Append(channel, pending)
    /\ sent' = Append(sent, pending)
    /\ windows' = Append(windows, buffer)
    /\ pending' = <<>>
    /\ pc' = "select"
    /\ UNCHANGED <<impl, typed, receiver, upClosed, buffer, downClosed, groupVars, componentVars>>

\* `sender.send(bundles).await` returns Ok (the channel has room), `buffer.clear()`
SendCompletes ==
    /\ pc = "send"
    /\ ~downClosed
    /\ Len(channel) < ChannelDepth
    /\ channel' = Append(channel, pending)
    /\ sent' = Append(sent, pending)
    /\ windows' = Append(windows, buffer)
    /\ buffer' = <<>>
    /\ pending' = <<>>
    /\ pc' = "select"
    /\ UNCHANGED <<impl, typed, receiver, upClosed, downClosed, groupVars, componentVars>>

\* `sender.send(bundles).await?` returns Err (the receiver is gone): run returns it
SendFails ==
    /\ pc = "send"
    /\ downClosed
    /\ pc' = "failed"
    /\ pending' = <<>>
    /\ UNCHANGED <<impl, typed, receiver, upClosed, buffer, channel, downClosed,
                   sent, windows, groupVars, componentVars>>

\* the consumer takes the next batch off the downstream channel
DownstreamRecv ==
    /\ ~downClosed
    /\ channel # <<>>
    /\ channel' = Tail(channel)
    /\ UNCHANGED <<impl, typed, receiver, upClosed, buffer, pc, pending, downClosed,
                   sent, windows, groupVars, componentVars>>

\* the consumer drops its receiver (and whatever the channel still held)
DownstreamClose ==
    /\ ~downClosed
    /\ downClosed' = TRUE
    /\ channel' = <<>>
    /\ UNCHANGED <<impl, typed, receiver, upClosed, buffer, pc, pending, sent,
                   windows, groupVars, componentVars>>

Next ==
    \/ \E e \in RunAlphabet \cup {TypedABCDEF[i] : i \in 1..Len(TypedABCDEF)} : Type(e)
    \/ CloseUpstream
    \/ RecvEvent
    \/ RecvNone
    \/ DelayElapsed
    \/ SendCompletes
    \/ SendFails
    \/ DownstreamRecv
    \/ DownstreamClose

Spec == Init /\ [][Next]_vars

\* ENABLED <<DelayElapsed>>_vars: the delay can elapse and there is something to flush
DelayCanFlush == pc = "select" /\ receiver = <<>> /\ ~upClosed /\ buffer # <<>>

\* What the scheduling guarantees: the operator task is polled when an event waits,
\* a timer that nothing interrupts fires, a send into a channel with room returns;
\* and the consumer, as long as it keeps its receiver, takes what is sent.
\* The second conjunct is WF_vars(DelayElapsed) with its ENABLED written out.
FairSpec ==
    /\ Spec
    /\ ([]<>(~DelayCanFlush) \/ []<><<DelayElapsed>>_vars)
    /\ WF_vars(RecvEvent)
    /\ WF_vars(RecvNone)
    /\ WF_vars(SendCompletes)
    /\ WF_vars(SendFails)
    /\ WF_vars(DownstreamRecv)

(***************************************************************************)
(* What the claims about process_events are stated with: the maximal runs  *)
(* of a window, read off the window itself (not off the accumulators).     *)
(***************************************************************************)
IsResize(e) == e.type = "Resize"
\* a key press of a character with no modifier or Shift only (KeyEventState NONE)
IsPrintable(e) ==
    /\ e.type = "Key" /\ e.code = "Char" /\ e.kind = "Press"
    /\ e.modifiers \in {"NONE", "SHIFT"} /\ e.state = "NONE"
IsCode(e, code) == e.type = "Key" /\ e.code = code
IsVertical(e) == IsCode(e, "Up") \/ IsCode(e, "Down")
IsHorizontal(e) == IsCode(e, "Left") \/ IsCode(e, "Right")
IsOther(e, resizeIsOther) ==
    /\ ~IsPrintable(e) /\ ~IsVertical(e) /\ ~IsHorizontal(e)
    /\ (IsResize(e) => resizeIsOther)

\* the kind that decides whether two neighbouring events are in the same run
RunKind(e, resizeIsOther) ==
    IF IsOther(e, resizeIsOther) THEN [kind |-> "other", event |-> e]
    ELSE IF IsResize(e) THEN [kind |-> "resize"]
    ELSE IF IsPrintable(e) THEN [kind |-> "char"]
    ELSE IF IsVertical(e) THEN [kind |-> "vertical"]
    ELSE [kind |-> "horizontal"]

Count(s, code) == Cardinality({i \in 1..Len(s) : IsCode(s[i], code)})

\* the length of the maximal run the window s starts with
RunLength(s, resizeIsOther) ==
    CHOOSE n \in 1..Len(s) :
        /\ \A i \in 1..n : RunKind(s[i], resizeIsOther) = RunKind(s[1], resizeIsOther)
        /\ n < Len(s) => RunKind(s[n + 1], resizeIsOther) # RunKind(s[1], resizeIsOther)

\* the group a run stands for (a run of resizes stands for none)
GroupOfRun(run, resizeIsOther) ==
    LET k == RunKind(run[1], resizeIsOther).kind
    IN  IF k = "char" THEN <<KeyBuffer([i \in 1..Len(run) |-> run[i].ch])>>
        ELSE IF k = "vertical"
            THEN <<VerticalCursorBuffer(Count(run, "Up"), Count(run, "Down"))>>
        ELSE IF k = "horizontal"
            THEN <<HorizontalCursorBuffer(Count(run, "Left"), Count(run, "Right"))>>
        ELSE IF k = "other" THEN <<Others(run[1], Len(run))>>
        ELSE <<>>

RECURSIVE RunGroups(_, _)
RunGroups(s, resizeIsOther) ==
    IF s = <<>> THEN <<>>
    ELSE LET n == RunLength(s, resizeIsOther)
         IN  GroupOfRun(SubSeq(s, 1, n), resizeIsOther)
                 \o RunGroups(SubSeq(s, n + 1, Len(s)), resizeIsOther)

IsLastResize(g) == g.variant = "LastResize"
WithoutLastResize(groups) == SelectSeq(groups, LAMBDA g : ~IsLastResize(g))
ResizeIndices(s) == {i \in 1..Len(s) : IsResize(s[i])}
HasResize(s) == ResizeIndices(s) # {}
Max(S) == CHOOSE x \in S : \A y \in S : y <= x
Min(S) == CHOOSE x \in S : \A y \in S : x <= y
Before(s, i) == SubSeq(s, 1, i - 1)
After(s, i) == SubSeq(s, i + 1, Len(s))
Positions(groups, variant) == {i \in 1..Len(groups) : groups[i].variant = variant}

TimeBasedCalled == "TimeBasedOperator" \in called
EventBufferCalled == "EventBuffer" \in called

\* C1: process_events (both implementations) emits one group per maximal run of
\* same-kind events, in input order: printable characters -> one KeyBuffer with the
\* characters in order, Up/Down -> one VerticalCursorBuffer(#Up, #Down), Left/Right
\* -> one HorizontalCursorBuffer(#Left, #Right), identical other events -> one
\* Others(event, run length); the 15-event test window and [Enter] give the
\* documented batches.
C1_OneGroupPerRun ==
    /\ TimeBasedCalled =>
         /\ WithoutLastResize(result) = RunGroups(events, FALSE)
         /\ events = TestEvents15 => result = TestExpected15
         /\ events = TestOnlyOthers => result = <<Others(Enter, 1)>>
    /\ EventBufferCalled =>
         /\ bundles = RunGroups(events, TRUE)
         /\ events = TestEvents15 => bundles = TestExpected15
         /\ events = TestOnlyOthers => bundles = <<Others(Enter, 1)>>

C1_Witness ==
    /\ events = TestEvents15
    /\ called = Impls
    /\ result = TestExpected15
    /\ bundles = TestExpected15

\* C2: in a window with resizes the single LastResize(w, h) comes after every group
\* built from the events before the final resize and before every group built from
\* the events after it; the 17-event test window gives the documented batch.
C2_LastResizeSplitsAtFinalResize ==
    TimeBasedCalled /\ HasResize(events) =>
        LET k == Max(ResizeIndices(events))
        IN  /\ result = RunGroups(Before(events, k), FALSE)
                          \o <<LastResize(events[k].width, events[k].height)>>
                          \o RunGroups(After(events, k), FALSE)
            /\ events = TestEvents17 => result = TestExpected17

C2_Witness ==
    /\ events = TestEvents17
    /\ TimeBasedCalled
    /\ result = TestExpected17

\* C3 as claimed: the resize index is recorded at the first Resize only, so
\* LastResize sits at the output index where the first resize was observed (the
\* number of groups built from the events before the first resize).
C3_Claimed_IndexOfFirstResize ==
    TimeBasedCalled /\ HasResize(events) =>
        LET first == Min(ResizeIndices(events))
        IN  Positions(result, "LastResize")
                = {Len(RunGroups(Before(events, first), FALSE)) + 1}

\* C3 amended: every Resize of the window overwrites the remembered dimensions and
\* the index, so LastResize sits at the output index where the last resize of the
\* window was observed (the number of groups built from the events before it).
C3_IndexOfLastResize ==
    TimeBasedCalled /\ HasResize(events) =>
        LET last == Max(ResizeIndices(events))
        IN  Positions(result, "LastResize")
                = {Len(RunGroups(Before(events, last), FALSE)) + 1}

C3_Witness ==
    /\ events = <<Resize128, KeyA, Resize64>>
    /\ TimeBasedCalled
    /\ result = <<KeyBuffer(<<"a">>), LastResize(64, 64)>>

\* C4: the batch holds LastResize at most once, exactly once iff the window holds a
\* Resize, and its (width, height) are those of the last Resize of the window.
C4_OneLastResizeWithLastDimensions ==
    TimeBasedCalled =>
        LET at == Positions(result, "LastResize")
        IN  /\ Cardinality(at) = (IF HasResize(events) THEN 1 ELSE 0)
            /\ \A p \in at :
                 LET e == events[Max(ResizeIndices(events))]
                 IN  result[p].width = e.width /\ result[p].height = e.height

C4_Witness ==
    /\ events = <<Resize128, KeyUp, Resize64>>
    /\ TimeBasedCalled
    /\ result = <<VerticalCursorBuffer(1, 0), LastResize(64, 64)>>

SameVariantAt(groups, i) == groups[i].variant = groups[i + 1].variant
DifferentOthersAt(groups, i) ==
    /\ groups[i].variant = "Others"
    /\ groups[i + 1].variant = "Others"
    /\ groups[i].event # groups[i + 1].event

\* C5 as claimed: the batch never holds two adjacent groups of the same variant.
C5_Claimed_NoAdjacentSameVariant ==
    TimeBasedCalled =>
        \A i \in 1..(Len(result) - 1) : ~SameVariantAt(result, i)

\* C5 amended: two adjacent groups of the same variant are either two Others that
\* carry different events, or two groups in front of LastResize that a Resize other
\* than the last one of the window separated (only the last resize leaves a group
\* between its neighbours). So no KeyBuffer is next to a KeyBuffer, no cursor buffer
\* next to one of its axis and no Others next to an Others of the same event, unless
\* an earlier resize of the window lay between them.
C5_AdjacentSameVariantOnlyByOthersOrEarlierResize ==
    /\ TimeBasedCalled =>
         \A i \in 1..(Len(result) - 1) :
             SameVariantAt(result, i) =>
                 \/ DifferentOthersAt(result, i)
                 \/ /\ Cardinality(ResizeIndices(events)) >= 2
                    /\ \E p \in Positions(result, "LastResize") : i + 1 < p
    /\ EventBufferCalled =>
         \A i \in 1..(Len(bundles) - 1) :
             SameVariantAt(bundles, i) => DifferentOthersAt(bundles, i)

C5_Witness ==
    /\ TimeBasedCalled
    /\ events = <<KeyA, Resize128, KeyA, Resize64>>
    /\ result = <<KeyBuffer(<<"a">>), KeyBuffer(<<"a">>), LastResize(64, 64)>>

\* C6: the batch holds no KeyBuffer with an empty character list, no
\* VerticalCursorBuffer(0,0) and no HorizontalCursorBuffer(0,0); flushing the
\* accumulators once they are empty / zero / none appends nothing.
C6_NoEmptyGroup ==
    /\ \A g \in {result[i] : i \in 1..Len(result)}
             \cup {bundles[i] : i \in 1..Len(bundles)} :
         /\ g # KeyBuffer(<<>>)
         /\ g # VerticalCursorBuffer(0, 0)
         /\ g # HorizontalCursorBuffer(0, 0)
    /\ TimeBasedCalled =>
         LET flushed == flush_all_buffers(Walk(Locals, events, 1))
         IN  /\ flush_all_buffers(flushed).result = flushed.result
             /\ InsertLastResize(flushed) = result
             /\ Len(WithoutLastResize(result)) <= Len(events)

C6_Witness ==
    /\ events = <<KeyUp, KeyA, KeyLeft>>
    /\ TimeBasedCalled
    /\ result = <<VerticalCursorBuffer(1, 0), KeyBuffer(<<"a">>),
                  HorizontalCursorBuffer(1, 0)>>

RECURSIVE Chars(_)
Chars(groups) ==
    IF groups = <<>> THEN <<>>
    ELSE (IF Head(groups).variant = "KeyBuffer" THEN Head(groups).chars ELSE <<>>)
             \o Chars(Tail(groups))

RECURSIVE Sum(_, _, _)
Sum(groups, variant, field) ==
    IF groups = <<>> THEN 0
    ELSE (IF Head(groups).variant = variant THEN Head(groups)[field] ELSE 0)
             + Sum(Tail(groups), variant, field)

PrintableChars(s) ==
    LET p == SelectSeq(s, IsPrintable) IN [i \in 1..Len(p) |-> p[i].ch]

\* C7: process_events conserves the window: the KeyBuffer groups concatenated give
\* the printable characters in input order; the up, down, left and right counts sum
\* to the numbers of Up, Down, Left and Right events; the Others counts sum to the
\* number of remaining non-resize events.
C7_EventsConserved ==
    TimeBasedCalled =>
        /\ Chars(result) = PrintableChars(events)
        /\ Sum(result, "VerticalCursorBuffer", "up") = Count(events, "Up")
        /\ Sum(result, "VerticalCursorBuffer", "down") = Count(events, "Down")
        /\ Sum(result, "HorizontalCursorBuffer", "left") = Count(events, "Left")
        /\ Sum(result, "HorizontalCursorBuffer", "right") = Count(events, "Right")
        /\ Sum(result, "Others", "count")
             = Cardinality({i \in 1..Len(events) : IsOther(events[i], FALSE)})

C7_Witness ==
    /\ events = TestModifiers
    /\ TimeBasedCalled
    /\ result = <<KeyBuffer(<<"a">>), Others(ReleaseA, 1), Others(CapsA, 2),
                  VerticalCursorBuffer(2, 0), LastResize(64, 64), Others(ReleaseA, 1)>>

(***************************************************************************)
(* What the claims about the run loop are stated with.                     *)
(***************************************************************************)
RECURSIVE Flatten(_)
Flatten(seqs) == IF seqs = <<>> THEN <<>> ELSE Head(seqs) \o Flatten(Tail(seqs))

\* the raw events run has received so far: all that were typed but those in flight
Received == SubSeq(typed, 1, Len(typed) - Len(receiver))

\* C8 (state part): every batch ever sent holds at least one group and is
\* process_events of the non-empty buffer it was built from; a send in progress
\* carries process_events(buffer) of a non-empty buffer.
C8_BatchesAreNonEmptyFlushes ==
    /\ Len(windows) = Len(sent)
    /\ \A i \in 1..Len(sent) :
         /\ windows[i] # <<>>
         /\ sent[i] = Process(windows[i])
         /\ Len(sent[i]) >= 1
    /\ pc = "send" =>
         /\ buffer # <<>>
         /\ pending = Process(buffer)
         /\ Len(pending) >= 1

\* C8: operator quiescence. When the delay elapses with a non-empty buffer the
\* operator sends exactly one batch, process_events(buffer), with at least one group,
\* and the buffer is empty once it is sent (the send returns unless the consumer has
\* dropped its receiver); when the delay elapses with an empty buffer nothing is
\* sent; no empty batch is ever sent.
C8_Quiescence ==
    /\ []C8_BatchesAreNonEmptyFlushes
    /\ [][DelayElapsed =>
            IF buffer # <<>>
            THEN /\ pc' = "send"
                 /\ pending' = Process(buffer)
                 /\ Len(pending') >= 1
                 /\ UNCHANGED <<sent, channel>>
            ELSE UNCHANGED <<pc, pending, sent, channel, buffer>>]_vars
    /\ [][sent' # sent =>
            /\ pc = "send" /\ pc' = "select"
            /\ sent' = Append(sent, Process(buffer))
            /\ channel' = Append(channel, Process(buffer))
            /\ buffer' = <<>>]_vars
    /\ (pc = "send") ~> ((pc = "select" /\ buffer = <<>>) \/ downClosed)

C8_Witness ==
    /\ impl = "TimeBasedOperator"
    /\ windows = <<<<KeyA, KeyUp>>>>
    /\ sent = <<<<KeyBuffer(<<"a">>), VerticalCursorBuffer(1, 0)>>>>
    /\ buffer = <<>>
    /\ pc = "select"

\* C9 (state part): while run is in its loop, the received events are exactly the
\* events of the batches sent so far, in order, followed by the events still
\* buffered: each received event is in one batch at most, none is dropped, and the
\* batches go out (and wait in the channel) in the order of their events.
C9_EachEventInOneBatchInOrder ==
    /\ pc \in {"select", "send"} => Flatten(windows) \o buffer = Received
    /\ Len(windows) = Len(sent)
    /\ \A i \in 1..Len(sent) : sent[i] = Process(windows[i])
    /\ ~downClosed =>
         /\ Len(channel) <= Len(sent)
         /\ channel = SubSeq(sent, Len(sent) - Len(channel) + 1, Len(sent))
    /\ typed = TypedABCDEF /\ windows = <<<<KeyA, KeyB, KeyC>>, <<KeyD, KeyE, KeyF>>>>
         => sent = <<<<KeyBuffer(<<"a", "b", "c">>)>>, <<KeyBuffer(<<"d", "e", "f">>)>>>>

\* C9: events typed in two windows that a quiescent period separates go out as two
\* batches in arrival order (abc, wait, def gives [KeyBuffer(a,b,c)] then
\* [KeyBuffer(d,e,f)]); while the upstream stays open (and the consumer keeps
\* receiving) every received event ends up in exactly one batch, and batches are sent
\* in the order their events were received.
C9_WindowsBecomeBatchesInOrder ==
    /\ []C9_EachEventInOneBatchInOrder
    /\ \A n \in 1..Len(TypedABCDEF) :
         (Len(Received) >= n) ~> (Len(Flatten(windows)) >= n \/ upClosed \/ downClosed)

C9_Witness ==
    /\ typed = TypedABCDEF
    /\ ~upClosed
    /\ sent = <<<<KeyBuffer(<<"a", "b", "c">>)>>, <<KeyBuffer(<<"d", "e", "f">>)>>>>
    /\ buffer = <<>>

\* C10 as claimed: when the upstream closes while the buffer is non-empty the
\* operator drains once before it exits, so that (the consumer still being there)
\* every event received before the close has gone out in a batch when run returns Ok.
C10_Claimed_DrainOnClose ==
    pc = "done" /\ ~downClosed => Flatten(windows) = typed

\* C11 as claimed: once the consumer has dropped the receiver of the batch channel,
\* run ends as an orderly shutdown: it never returns the send error of the closed
\* channel (pc = "failed" is `sender.send(..).await?` returning Err out of run).
C11_Claimed_OrderlyShutdownOnDownstreamClose ==
    downClosed => pc # "failed"

(***************************************************************************)
(* SpecSnapshot: the holders of one StateHistory call update, rollback and *)
(* current_mut concurrently. A call is a sequence of steps: it waits for   *)
(* the lock, runs the statements of its body one by one under the guard,   *)
(* and releases the guard when the body ends.                              *)
(***************************************************************************)
MaxCalls == 4

\* the `result` of the closure handed to current_mut: the examples render the pane
\* of the state they return (examples/lazyutil/component.rs:58-59)
Pane(state) == <<"pane", state>>

\* calls made so far: those that got the lock, and those that have not yet
Waiting == {h \in Holders : hpc[h] \in {"update:lock", "rollback:lock",
                                        "current_mut:lock", "current_mut:f"}}
Calls == Len(log) + Cardinality(Waiting)

Invoke(h, method, new_state, at) ==
    /\ hpc[h] = "idle"
    /\ Calls < MaxCalls
    /\ hpc' = [hpc EXCEPT ![h] = at]
    /\ call' = [call EXCEPT ![h] = method]
    /\ arg' = [arg EXCEPT ![h] = new_state]
    /\ prev' = [prev EXCEPT ![h] = None]
    /\ cloned' = [cloned EXCEPT ![h] = None]
    /\ clonedAt' = [clonedAt EXCEPT ![h] = 0]
    /\ fres' = [fres EXCEPT ![h] = None]
    /\ ret' = [ret EXCEPT ![h] = None]
    /\ UNCHANGED <<current, previous, lock, log, nonSnapVars>>

\* a holder calls update(new_state)
CallUpdate(h, new_state) == Invoke(h, "update", Some(new_state), "update:lock")

\* a holder calls rollback()
CallRollback(h) == Invoke(h, "rollback", None, "rollback:lock")

\* a holder calls current_mut(f)
CallCurrentMut(h) == Invoke(h, "current_mut", None, "current_mut:lock")

\* update: `let mut inner = self.inner.lock().await;`
UpdateLock_NoMutex(h) ==
    /\ hpc[h] = "update:lock"
    /\ lock' = Some(h)
    /\ hpc' = [hpc EXCEPT ![h] = "update:previous"]
    /\ log' = Append(log, [op |-> "update", x |-> arg[h], was |-> current])
    /\ UNCHANGED <<current, previous, call, arg, prev, cloned, fres, ret,
                   clonedAt, nonSnapVars>>

UpdateLock(h) ==
    /\ hpc[h] = "update:lock"
    /\ lock = None
    /\ lock' = Some(h)
    /\ hpc' = [hpc EXCEPT ![h] = "update:previous"]
    /\ log' = Append(log, [op |-> "update", x |-> arg[h], was |-> current])
    /\ UNCHANGED <<current, previous, call, arg, prev, cloned, fres, ret,
                   clonedAt, nonSnapVars>>

\* update: `inner.previous = Some(inner.current.clone());`
UpdateSetPrevious_KeepsOlder(h) ==
    /\ hpc[h] = "update:previous"
    /\ previous' = IF previous = None THEN Some(current) ELSE previous
    /\ hpc' = [hpc EXCEPT ![h] = "update:current"]
    /\ UNCHANGED <<current, lock, call, arg, prev, cloned, fres, ret, log,
                   clonedAt, nonSnapVars>>

UpdateSetPrevious(h) ==
    /\ hpc[h] = "update:previous"
    /\ previous' = Some(current)
    /\ hpc' = [hpc EXCEPT ![h] = "update:current"]
    /\ UNCHANGED <<current, lock, call, arg, prev, cloned, fres, ret, log,
                   clonedAt, nonSnapVars>>

\* update: `inner.current = new_state;` and the guard is dropped; when update was
\* called by current_mut, current_mut returns `result`
UpdateSetCurrent_ReturnsUnit(h) ==
    /\ hpc[h] = "update:current"
    /\ current' = arg[h][1]
    /\ lock' = None
    /\ hpc' = [hpc EXCEPT ![h] = "idle"]
    /\ ret' = [ret EXCEPT ![h] = None]
    /\ UNCHANGED <<previous, call, arg, prev, cloned, fres, log, clonedAt, nonSnapVars>>

UpdateSetCurrent(h) ==
    /\ hpc[h] = "update:current"
    /\ current' = arg[h][1]
    /\ lock' = None
    /\ hpc' = [hpc EXCEPT ![h] = "idle"]
    /\ ret' = [ret EXCEPT ![h] = IF call[h] = "current_mut" THEN fres[h] ELSE None]
    /\ UNCHANGED <<previous, call, arg, prev, cloned, fres, log, clonedAt, nonSnapVars>>

\* rollback: `let mut inner = self.inner.lock().await;`
RollbackLock(h) ==
    /\ hpc[h] = "rollback:lock"
    /\ lock = None
    /\ lock' = Some(h)
    /\ hpc' = [hpc EXCEPT ![h] = "rollback:take"]
    /\ log' = Append(log, [op |-> "rollback", x |-> None, was |-> current])
    /\ UNCHANGED <<current, previous, call, arg, prev, cloned, fres, ret,
                   clonedAt, nonSnapVars>>

\* rollback: `if let Some(prev) = inner.previous.take()`; on None it returns false
RollbackTake_Peek(h) ==
    /\ hpc[h] = "rollback:take"
    /\ IF previous # None
       THEN /\ prev' = [prev EXCEPT ![h] = previous]
            /\ hpc' = [hpc EXCEPT ![h] = "rollback:current"]
            /\ UNCHANGED <<previous, lock, ret, log>>
       ELSE /\ ret' = [ret EXCEPT ![h] = Some(FALSE)]
            /\ lock' = None
            /\ hpc' = [hpc EXCEPT ![h] = "idle"]
            /\ log' = [log EXCEPT ![Len(log)].x = Some(FALSE)]
            /\ UNCHANGED <<previous, prev>>
    /\ UNCHANGED <<current, call, arg, cloned, fres, clonedAt, nonSnapVars>>

RollbackTake(h) ==
    /\ hpc[h] = "rollback:take"
    /\ IF previous # None
       THEN /\ prev' = [prev EXCEPT ![h] = previous]
            /\ previous' = None
            /\ hpc' = [hpc EXCEPT ![h] = "rollback:current"]
            /\ UNCHANGED <<lock, ret, log>>
       ELSE /\ ret' = [ret EXCEPT ![h] = Some(FALSE)]
            /\ lock' = None
            /\ hpc' = [hpc EXCEPT ![h] = "idle"]
            /\ log' = [log EXCEPT ![Len(log)].x = Some(FALSE)]
            /\ UNCHANGED <<previous, prev>>
    /\ UNCHANGED <<current, call, arg, cloned, fres, clonedAt, nonSnapVars>>

\* rollback: `inner.current = prev; true` and the guard is dropped
RollbackSetCurrent(h) ==
    /\ hpc[h] = "rollback:current"
    /\ current' = prev[h][1]
    /\ ret' = [ret EXCEPT ![h] = Some(TRUE)]
    /\ lock' = None
    /\ hpc' = [hpc EXCEPT ![h] = "idle"]
    /\ log' = [log EXCEPT ![Len(log)].x = Some(TRUE)]
    /\ UNCHANGED <<previous, call, arg, prev, cloned, fres, clonedAt, nonSnapVars>>

\* current_mut: `let current = { let inner = self.inner.lock().await;
\* inner.current.clone() };` the guard lives for this block only
CurrentMutClone_HoldsGuard(h) ==
    /\ hpc[h] = "current_mut:lock"
    /\ lock = None
    /\ lock' = Some(h)
    /\ cloned' = [cloned EXCEPT ![h] = Some(current)]
    /\ clonedAt' = [clonedAt EXCEPT ![h] = Len(log)]
    /\ hpc' = [hpc EXCEPT ![h] = "current_mut:f"]
    /\ UNCHANGED <<current, previous, call, arg, prev, fres, ret, log, nonSnapVars>>

CurrentMutClone(h) ==
    /\ hpc[h] = "current_mut:lock"
    /\ lock = None
    /\ cloned' = [cloned EXCEPT ![h] = Some(current)]
    /\ clonedAt' = [clonedAt EXCEPT ![h] = Len(log)]
    /\ hpc' = [hpc EXCEPT ![h] = "current_mut:f"]
    /\ UNCHANGED <<current, previous, lock, call, arg, prev, fres, ret, log,
                   nonSnapVars>>

\* current_mut: `let (new_state, result) = f(current).await;` completes, with the
\* lock free all the while; then `self.update(new_state).await` is called
CurrentMutF(h, new_state) ==
    /\ hpc[h] = "current_mut:f"
    /\ arg' = [arg EXCEPT ![h] = Some(new_state)]
    /\ fres' = [fres EXCEPT ![h] = Some(Pane(new_state))]
    /\ hpc' = [hpc EXCEPT ![h] = "update:lock"]
    /\ UNCHANGED <<current, previous, lock, call, prev, cloned, ret, log,
                   clonedAt, nonSnapVars>>

\* the abort that lets update(new_state) run all the same
CurrentMutAbort_UpdateRuns(h) ==
    /\ hpc[h] = "current_mut:f"
    /\ lock = None
    /\ previous' = Some(current)
    /\ current' = cloned[h][1]
    /\ hpc' = [hpc EXCEPT ![h] = "aborted"]
    /\ UNCHANGED <<lock, call, arg, prev, cloned, fres, ret, log, clonedAt,
                   nonSnapVars>>

\* the task that called current_mut is aborted while it awaits f(current): the
\* future is dropped there, `self.update(new_state)` is never called
CurrentMutAbort(h) ==
    /\ hpc[h] = "current_mut:f"
    /\ hpc' = [hpc EXCEPT ![h] = "aborted"]
    /\ UNCHANGED <<current, previous, lock, call, arg, prev, cloned, fres, ret, log,
                   clonedAt, nonSnapVars>>

SnapshotInit ==
    /\ WizardIdle
    /\ SessionIdle
    /\ CoordinatorIdle
    /\ \E initial \in Values : new(initial)
    /\ SyncIdle
    /\ LoadingIdle
    /\ EvaluatorIdle
    /\ OrchestratorIdle
    /\ GroupIdle
    /\ RunInit
    /\ impl = "TimeBasedOperator"

SnapshotNext ==
    \E h \in Holders :
        \/ \E new_state \in Values : CallUpdate(h, new_state)
        \/ CallRollback(h)
        \/ CallCurrentMut(h)
        \/ UpdateLock(h)
        \/ UpdateSetPrevious(h)
        \/ UpdateSetCurrent(h)
        \/ RollbackLock(h)
        \/ RollbackTake(h)
        \/ RollbackSetCurrent(h)
        \/ CurrentMutClone(h)
        \/ \E new_state \in Values : CurrentMutF(h, new_state)
        \/ CurrentMutAbort(h)

SpecSnapshot == SnapshotInit /\ [][SnapshotNext]_vars

(***************************************************************************)
(* Claims about the StateHistory. `log` holds the calls in the order they  *)
(* took the lock; each entry carries the value `current` had at that time  *)
(* (was) and, for a rollback, what it returned (x).                        *)
(***************************************************************************)
\* no call is inside its critical section: every entry of log is complete
Quiet == lock = None

LogTail(n) == SubSeq(log, Len(log) - n + 1, Len(log))

\* the last n calls were the methods ops, in this order
EndsWith(ops) ==
    /\ Len(log) >= Len(ops)
    /\ \A i \in 1..Len(ops) : LogTail(Len(ops))[i].op = ops[i]

\* h's call returns in this step, from the last statement of update
Returns(h, method) ==
    hpc[h] = "update:current" /\ hpc'[h] = "idle" /\ call[h] = method

\* C12: the Snapshot keeps exactly one level of history. update(new) sets previous to
\* the value current had immediately before and current to new. Between calls,
\* previous is None exactly after new or after a rollback, and otherwise it is the
\* value current held just before the most recent update. After two or more updates
\* ..., x(n-1), xn one rollback restores x(n-1) and returns true, and a second
\* rollback returns false: x(n-2) and older values are gone.
C12_OneLevelOfHistory ==
    /\ [][\A h \in Holders : Returns(h, "update") =>
            current' = arg[h][1] /\ previous' = Some(current)]_vars
    /\ [](Quiet =>
            /\ previous = None <=> (log = <<>> \/ log[Len(log)].op = "rollback")
            /\ previous # None =>
                 \E i \in 1..Len(log) :
                    /\ log[i].op = "update"
                    /\ \A j \in (i + 1)..Len(log) : log[j].op # "update"
                    /\ previous = Some(log[i].was)
            /\ EndsWith(<<"update", "update", "rollback">>) =>
                 /\ LogTail(3)[3].x = Some(TRUE)
                 /\ current = LogTail(3)[1].x[1]
                 /\ previous = None
            /\ EndsWith(<<"update", "update", "rollback", "rollback">>) =>
                 /\ LogTail(4)[3].x = Some(TRUE)
                 /\ LogTail(4)[4].x = Some(FALSE)
                 /\ current = LogTail(4)[1].x[1]
                 /\ previous = None)

C12_Witness ==
    /\ Quiet
    /\ Len(log) = 4
    /\ EndsWith(<<"update", "update", "rollback", "rollback">>)
    /\ log = << [op |-> "update", x |-> Some("x1"), was |-> "x0"],
                [op |-> "update", x |-> Some("x2"), was |-> "x1"],
                [op |-> "rollback", x |-> Some(TRUE), was |-> "x2"],
                [op |-> "rollback", x |-> Some(FALSE), was |-> "x1"] >>
    /\ current = "x1"
    /\ previous = None

\* C13: round trip. From current = c, update(x) followed by rollback() returns true
\* and leaves current = c; a second rollback right after returns false and leaves
\* current unchanged; the first call on a fresh Snapshot being a rollback, it
\* returns false (and leaves current as constructed).
C13_UpdateRollbackRoundTrip ==
    Quiet =>
        /\ EndsWith(<<"update", "rollback">>) =>
             /\ LogTail(2)[2].x = Some(TRUE)
             /\ current = LogTail(2)[1].was
        /\ EndsWith(<<"update", "rollback", "rollback">>) =>
             /\ LogTail(3)[3].x = Some(FALSE)
             /\ current = LogTail(3)[3].was
             /\ current = LogTail(3)[1].was
        /\ EndsWith(<<"rollback", "rollback">>) =>
             /\ LogTail(2)[2].x = Some(FALSE)
             /\ current = LogTail(2)[2].was
        /\ log # <<>> /\ log[1].op = "rollback" =>
             /\ log[1].x = Some(FALSE)
             /\ Len(log) = 1 => current = log[1].was /\ previous = None

C13_Witness ==
    /\ Quiet
    /\ Len(log) = 3
    /\ EndsWith(<<"update", "rollback", "rollback">>)
    /\ log = << [op |-> "update", x |-> Some("x1"), was |-> "x0"],
                [op |-> "rollback", x |-> Some(TRUE), was |-> "x1"],
                [op |-> "rollback", x |-> Some(FALSE), was |-> "x0"] >>
    /\ current = "x0"

\* C14: with no concurrent caller (nobody took the lock between the clone and the
\* publication, and every other holder is idle), current_mut(f), where f maps the
\* cloned current c_before to (c', r), returns r and leaves current = c' and
\* previous = c_before.
C14_ModifyAlone ==
    [][\A h \in Holders :
          /\ Returns(h, "current_mut")
          /\ Len(log) = clonedAt[h] + 1
          /\ \A g \in Holders \ {h} : hpc[g] = "idle"
          => /\ fres[h] = Some(Pane(arg[h][1]))
             /\ ret'[h] = fres[h]
             /\ current' = arg[h][1]
             /\ previous' = cloned[h]]_vars

C14_Witness ==
    /\ hpc = [h \in Holders |-> "idle"]
    /\ call = [h \in Holders |-> IF h = "h1" THEN "current_mut" ELSE "none"]
    /\ cloned["h1"] = Some("x0")
    /\ ret["h1"] = Some(Pane("x1"))
    /\ current = "x1"
    /\ previous = Some("x0")
    /\ Len(log) = 1

\* C15: current_mut does not hold the lock across the user future. While h awaits f
\* the lock is free and inner is as it was, so a caller that clones meanwhile reads
\* the same pre-modification current; and when two current_mut calls cloned the
\* same current c0 before either published, after both have finished current is
\* the value of the one that finished last and previous the value of the other:
\* the first publication is not the final current and c0 is not in the history.
C15_ModifyRace ==
    /\ [](\A h \in Holders : hpc[h] = "current_mut:f" => lock # Some(h))
    /\ [][\A h \in Holders :
            hpc[h] \in {"current_mut:lock", "current_mut:f"} /\ hpc'[h] # hpc[h]
            => current' = current /\ previous' = previous /\ lock' = lock]_vars
    /\ [][\A h \in Holders : \A g \in Holders \ {h} :
            /\ hpc[h] = "current_mut:f"
            /\ Len(log) = clonedAt[h]
            /\ hpc[g] = "current_mut:lock" /\ hpc'[g] = "current_mut:f"
            => cloned'[g] = cloned[h]]_vars
    /\ [][\A h \in Holders : \A g \in Holders \ {h} :
            /\ Returns(h, "current_mut")
            /\ hpc[g] = "idle" /\ call[g] = "current_mut"
            /\ clonedAt[g] = clonedAt[h]
            /\ Len(log) = clonedAt[h] + 2
            => /\ cloned[g] = cloned[h]
               /\ current' = arg[h][1]
               /\ previous' = Some(arg[g][1])
               /\ log[Len(log) - 1].x = arg[g]]_vars

C15_Witness ==
    /\ hpc = [h \in Holders |-> "idle"]
    /\ call = [h \in Holders |-> "current_mut"]
    /\ cloned = [h \in Holders |-> Some("x0")]
    /\ clonedAt["h1"] = clonedAt["h2"]
    /\ arg = [h \in Holders |-> IF h = "h1" THEN Some("x1") ELSE Some("x2")]
    /\ current = "x2"
    /\ previous = Some("x1")

\* the sequential Snapshot of the specification
SeqUpdate(inner, x) == [current |-> x, previous |-> Some(inner.current)]

SeqRollback(inner) ==
    IF inner.previous # None
    THEN [current |-> inner.previous[1], previous |-> None]
    ELSE inner

RECURSIVE Replay(_, _)
Replay(inner, ops) ==
    IF ops = <<>> THEN inner
    ELSE Replay(IF ops[1].op = "update" THEN SeqUpdate(inner, ops[1].x[1])
                ELSE SeqRollback(inner), Tail(ops))

\* the Snapshot as constructed
Constructed ==
    [current |-> IF log = <<>> THEN current ELSE log[1].was, previous |-> None]

CriticalSection == {"update:previous", "update:current", "rollback:take",
                    "rollback:current"}

\* C16: update and rollback on a shared Snapshot are linearizable. The calls take
\* effect one at a time in the order they take the lock (a point between call and
\* return): between calls, (current, previous) is what the sequential Snapshot
\* gives for that order, and every rollback returned what it returns there. A
\* half-applied update (previous replaced, current not yet) exists only while its
\* holder has the lock, and no other holder reads or writes inner meanwhile.
C16_UpdateRollbackLinearizable ==
    /\ [](Quiet =>
            /\ [current |-> current, previous |-> previous] = Replay(Constructed, log)
            /\ \A i \in 1..Len(log) :
                 log[i].op = "rollback" =>
                   log[i].x = Some(Replay(Constructed, SubSeq(log, 1, i - 1)).previous
                                   # None))
    /\ [](\A h \in Holders : hpc[h] \in CriticalSection <=> lock = Some(h))
    /\ [][\A g \in Holders :
            hpc[g] = "current_mut:lock" /\ hpc'[g] = "current_mut:f"
            => \A h \in Holders : hpc[h] \notin CriticalSection]_vars

C16_Witness ==
    /\ hpc["h1"] = "update:current"
    /\ hpc["h2"] = "rollback:lock"
    /\ previous = Some(current)
    /\ arg["h1"] # Some(current)
    /\ lock = Some("h1")
    /\ log # <<>> /\ log[1].op = "rollback"

(***************************************************************************)
(* SpecSync: SyncComponent::run / InputProcessor::run.                     *)
(*                                                                         *)
(*   while let Some(event_groups) = rx.recv().await {                      *)
(*       let pane = self.process_event(area, &event_groups);               *)
(*       if tx.send(pane).await.is_err() { break; }                        *)
(*   }                                                                     *)
(*                                                                         *)
(* The orchestrator sends batches on rx and may drop its sender; the       *)
(* consumer of panes receives from tx and may drop its receiver. The k-th  *)
(* batch sent is named k. process_event applies the batch to the           *)
(* component's state and renders the state.                                *)
(***************************************************************************)
MaxSyncBatches == 3

\* the pane process_event renders from the component's state
\* (examples/lazyutil/component.rs:36-42: keymap(&inputs, &mut self.fast), create_pane)
SyncPane(state) == <<"pane", state>>

\* the orchestrator sends the next batch
SyncOffer ==
    /\ ~syncRxClosed
    /\ syncOffered < MaxSyncBatches
    /\ Len(syncRx) < ChannelDepth
    /\ syncRx' = Append(syncRx, syncOffered + 1)
    /\ syncOffered' = syncOffered + 1
    /\ UNCHANGED <<syncRxClosed, syncPc, event_groups, syncSelf, pane, syncTx,
                   syncTxClosed, syncReceived, syncCalls, syncPublished, nonSyncVars>>

\* the orchestrator drops its sender; what the channel holds can still be received
SyncCloseInput ==
    /\ ~syncRxClosed
    /\ syncRxClosed' = TRUE
    /\ UNCHANGED <<syncRx, syncPc, event_groups, syncSelf, pane, syncTx, syncTxClosed,
                   syncOffered, syncReceived, syncCalls, syncPublished, nonSyncVars>>

\* `rx.recv().await` returns Some(event_groups)
SyncRecv ==
    /\ syncPc = "recv"
    /\ syncRx # <<>>
    /\ event_groups' = Some(Head(syncRx))
    /\ syncRx' = Tail(syncRx)
    /\ syncReceived' = Append(syncReceived, Head(syncRx))
    /\ syncPc' = "process"
    /\ UNCHANGED <<syncRxClosed, syncSelf, pane, syncTx, syncTxClosed, syncOffered,
                   syncCalls, syncPublished, nonSyncVars>>

\* `rx.recv().await` returns None: the loop ends
SyncRecvNone ==
    /\ syncPc = "recv"
    /\ syncRx = <<>>
    /\ syncRxClosed
    /\ syncPc' = "done"
    /\ UNCHANGED <<syncRx, syncRxClosed, event_groups, syncSelf, pane, syncTx,
                   syncTxClosed, syncOffered, syncReceived, syncCalls, syncPublished,
                   nonSyncVars>>

\* `let pane = self.process_event(area, &event_groups);`
SyncProcess ==
    /\ syncPc = "process"
    /\ syncSelf' = Append(syncSelf, event_groups[1])
    /\ pane' = Some(SyncPane(syncSelf'))
    /\ syncCalls' = Append(syncCalls, event_groups[1])
    /\ syncPc' = "send"
    /\ UNCHANGED <<syncRx, syncRxClosed, event_groups, syncTx, syncTxClosed, syncOffered,
                   syncReceived, syncPublished, nonSyncVars>>

\* the same with try_send: a pane that finds the channel full is dropped
SyncSend_TrySend ==
    /\ syncPc = "send"
    /\ IF syncTxClosed
       THEN syncPc' = "done" /\ UNCHANGED <<syncTx, syncPublished>>
       ELSE /\ syncPc' = "recv"
            /\ IF Len(syncTx) < ChannelDepth
               THEN /\ syncTx' = Append(syncTx, pane[1])
                    /\ syncPublished' = Append(syncPublished, pane[1])
               ELSE UNCHANGED <<syncTx, syncPublished>>
    /\ pane' = None
    /\ event_groups' = None
    /\ UNCHANGED <<syncRx, syncRxClosed, syncSelf, syncTxClosed, syncOffered,
                   syncReceived, syncCalls, nonSyncVars>>

\* `tx.send(pane).await`: Err when the receiver is gone (break), else it completes
\* once the channel has room, and the loop goes back to recv
SyncSend ==
    /\ syncPc = "send"
    /\ IF syncTxClosed
       THEN syncPc' = "done" /\ UNCHANGED <<syncTx, syncPublished>>
       ELSE /\ Len(syncTx) < ChannelDepth
            /\ syncTx' = Append(syncTx, pane[1])
            /\ syncPublished' = Append(syncPublished, pane[1])
            /\ syncPc' = "recv"
    /\ pane' = None
    /\ event_groups' = None
    /\ UNCHANGED <<syncRx, syncRxClosed, syncSelf, syncTxClosed, syncOffered,
                   syncReceived, syncCalls, nonSyncVars>>

\* the consumer takes the next pane off the output channel
SyncPaneRecv ==
    /\ ~syncTxClosed
    /\ syncTx # <<>>
    /\ syncTx' = Tail(syncTx)
    /\ UNCHANGED <<syncRx, syncRxClosed, syncPc, event_groups, syncSelf, pane,
                   syncTxClosed, syncOffered, syncReceived, syncCalls, syncPublished,
                   nonSyncVars>>

\* the consumer drops its receiver (and whatever the channel still held)
SyncPaneClose ==
    /\ ~syncTxClosed
    /\ syncTxClosed' = TRUE
    /\ syncTx' = <<>>
    /\ UNCHANGED <<syncRx, syncRxClosed, syncPc, event_groups, syncSelf, pane,
                   syncOffered, syncReceived, syncCalls, syncPublished, nonSyncVars>>

SyncInit ==
    /\ WizardIdle
    /\ SessionIdle
    /\ CoordinatorIdle
    /\ SyncIdle
    /\ SnapshotIdle
    /\ LoadingIdle
    /\ EvaluatorIdle
    /\ OrchestratorIdle
    /\ GroupIdle
    /\ RunInit
    /\ impl = "TimeBasedOperator"

SyncNext ==
    \/ SyncOffer
    \/ SyncCloseInput
    \/ SyncRecv
    \/ SyncRecvNone
    \/ SyncProcess
    \/ SyncSend
    \/ SyncPaneRecv
    \/ SyncPaneClose

SpecSync == SyncInit /\ [][SyncNext]_vars

\* the task of run is polled when it can go on, and the consumer, as long as it
\* keeps its receiver, takes what is sent
FairSpecSync ==
    /\ SpecSync
    /\ WF_vars(SyncRecv)
    /\ WF_vars(SyncRecvNone)
    /\ WF_vars(SyncProcess)
    /\ WF_vars(SyncSend)
    /\ WF_vars(SyncPaneRecv)

\* the batches 1..n in the order they were sent
FirstBatches(n) == [i \in 1..n |-> i]

\* C17: a Sync component processes batches in strict FIFO order. The batches are
\* received in the order they were sent; process_event is called once per received
\* batch, in that order (the last received one may be about to be processed); the
\* i-th pane published is the pane of the i-th call, rendered from the state after
\* batches 1..i; nothing is published out of order or twice, and the only received
\* batch without a pane is the one being processed or sent. While the output
\* stays open every received batch gets its pane published.
C17_SyncFifo ==
    /\ [](/\ syncReceived = FirstBatches(Len(syncReceived))
          /\ syncCalls = IF syncPc = "process"
                         THEN SubSeq(syncReceived, 1, Len(syncReceived) - 1)
                         ELSE syncReceived
          /\ Len(syncPublished) <= Len(syncCalls)
          /\ \A i \in 1..Len(syncPublished) :
               syncPublished[i] = SyncPane(FirstBatches(i))
          /\ syncPc = "recv" => Len(syncPublished) = Len(syncCalls)
          /\ syncPc = "send" => Len(syncPublished) = Len(syncCalls) - 1
          /\ syncPc = "done" /\ ~syncTxClosed => Len(syncPublished) = Len(syncCalls))
    /\ \A n \in 1..MaxSyncBatches :
         (Len(syncReceived) >= n) ~> (Len(syncPublished) >= n \/ syncTxClosed)

C17_Witness ==
    /\ ~syncTxClosed
    /\ syncReceived = <<1, 2, 3>>
    /\ syncCalls = <<1, 2, 3>>
    /\ syncPublished = <<SyncPane(<<1>>), SyncPane(<<1, 2>>), SyncPane(<<1, 2, 3>>)>>

(***************************************************************************)
(* SpecLoading: LoadingComponent::run (src/src/component/loading.rs; the   *)
(* same loop in src/src/component.rs).                                     *)
(*                                                                         *)
(*   loop { select! {                                                      *)
(*       Some(inputs) = rx.recv() => {                                     *)
(*           if let Some(task) = current_task.take() {                     *)
(*               task.abort(); { lock; is_loading = false } }              *)
(*           current_task = Some(spawn(async {                             *)
(*               { lock; is_loading = true }                               *)
(*               let result = this.process_event(area, inputs).await;      *)
(*               { lock; is_loading = false }                              *)
(*               tx_clone.send(result).await })) }                         *)
(*       else => { loading_task.abort(); break; } } }                      *)
(*                                                                         *)
(* run, every process_task and the spinner loading_task are tasks of a     *)
(* multi-threaded runtime (#[tokio::main]): they run in parallel. abort()  *)
(* marks a task; a task that is suspended at an await is then dropped      *)
(* without being polled again, a task that is being polled goes on until   *)
(* it next yields. process_event is awaited suspended (it takes seconds);  *)
(* a lock or a send that can complete at once may do so without yielding.  *)
(***************************************************************************)
MaxLoadBatches == 2

\* LOADING_FRAMES.len()
LoadingFrames == 10

Final == {"finished", "failed", "cancelled"}

TaskIds == 1..Len(tasks)

\* the orchestrator sends the next batch (the k-th batch sent is named k)
LoadOffer ==
    /\ ~loadRxClosed
    /\ loadOffered < MaxLoadBatches
    /\ Len(loadRx) < ChannelDepth
    /\ loadRx' = Append(loadRx, loadOffered + 1)
    /\ loadOffered' = loadOffered + 1
    /\ UNCHANGED <<loadRxClosed, loadTx, loadTxClosed, loadPc, inputs, current_task,
                   tasks, is_loading, frame_index, spinPc, loading_pane, spinAborted,
                   loadPublished, rollbacks, nonLoadVars>>

\* the orchestrator drops its sender
LoadCloseInput ==
    /\ ~loadRxClosed
    /\ loadRxClosed' = TRUE
    /\ UNCHANGED <<loadRx, loadTx, loadTxClosed, loadPc, inputs, current_task, tasks,
                   is_loading, frame_index, spinPc, loading_pane, spinAborted,
                   loadOffered, loadPublished, rollbacks, nonLoadVars>>

\* tokio::spawn(async move { .. }) of the recv arm, and current_task = Some(..)
Spawn(batch) ==
    /\ tasks' = Append(tasks, [inputs |-> batch, pc |-> "spawned", aborted |-> FALSE,
                               abortedAt |-> "-"])
    /\ current_task' = Some(Len(tasks) + 1)

\* the recv arm when current_task is None: the task is spawned at once
LoadRecvSpawn ==
    /\ loadPc = "select"
    /\ loadRx # <<>>
    /\ current_task = None
    /\ loadRx' = Tail(loadRx)
    /\ Spawn(Head(loadRx))
    /\ UNCHANGED <<loadRxClosed, loadTx, loadTxClosed, loadPc, inputs, is_loading,
                   frame_index, spinPc, loading_pane, spinAborted, loadOffered,
                   loadPublished, rollbacks, nonLoadVars>>

\* the same recv arm without task.abort()
LoadRecvAbort_NoAbort ==
    /\ loadPc = "select"
    /\ loadRx # <<>>
    /\ current_task # None
    /\ loadRx' = Tail(loadRx)
    /\ inputs' = Some(Head(loadRx))
    /\ current_task' = None
    /\ loadPc' = "abort"
    /\ UNCHANGED <<loadRxClosed, loadTx, loadTxClosed, tasks, is_loading, frame_index,
                   spinPc, loading_pane, spinAborted, loadOffered, loadPublished,
                   rollbacks, nonLoadVars>>

\* the recv arm when current_task is Some(task): `current_task.take()`,
\* `task.abort()`, then run waits for the loading_state lock
LoadRecvAbort ==
    /\ loadPc = "select"
    /\ loadRx # <<>>
    /\ current_task # None
    /\ loadRx' = Tail(loadRx)
    /\ inputs' = Some(Head(loadRx))
    /\ tasks' = [tasks EXCEPT ![current_task[1]].aborted = TRUE,
                              ![current_task[1]].abortedAt = tasks[current_task[1]].pc]
    /\ current_task' = None
    /\ loadPc' = "abort"
    /\ UNCHANGED <<loadRxClosed, loadTx, loadTxClosed, is_loading, frame_index, spinPc,
                   loading_pane, spinAborted, loadOffered, loadPublished, rollbacks,
                   nonLoadVars>>

\* the same step with the spinner's frame index reset for the new task
LoadClearSpawn_ResetsFrame ==
    /\ loadPc = "abort"
    /\ is_loading' = FALSE
    /\ frame_index' = 0
    /\ Spawn(inputs[1])
    /\ inputs' = None
    /\ loadPc' = "select"
    /\ UNCHANGED <<loadRx, loadRxClosed, loadTx, loadTxClosed, spinPc,
                   loading_pane, spinAborted, loadOffered, loadPublished, rollbacks,
                   nonLoadVars>>

\* `state.is_loading = false;` under the lock, then the new task is spawned
LoadClearSpawn ==
    /\ loadPc = "abort"
    /\ is_loading' = FALSE
    /\ Spawn(inputs[1])
    /\ inputs' = None
    /\ loadPc' = "select"
    /\ UNCHANGED <<loadRx, loadRxClosed, loadTx, loadTxClosed, frame_index, spinPc,
                   loading_pane, spinAborted, loadOffered, loadPublished, rollbacks,
                   nonLoadVars>>

\* rx.recv() returns None, the pattern Some(inputs) does not match: the else arm
\* aborts the spinner and breaks (current_task is dropped, not aborted)
LoadElse ==
    /\ loadPc = "select"
    /\ loadRx = <<>>
    /\ loadRxClosed
    /\ spinAborted' = TRUE
    /\ loadPc' = "done"
    /\ UNCHANGED <<loadRx, loadRxClosed, loadTx, loadTxClosed, inputs, current_task,
                   tasks, is_loading, frame_index, spinPc, loading_pane, loadOffered,
                   loadPublished, rollbacks, nonLoadVars>>

\* a process_task is polled for the first time: `state.is_loading = true;` under
\* the lock, then it awaits process_event
TaskStart(t) ==
    /\ tasks[t].pc = "spawned"
    /\ ~tasks[t].aborted
    /\ is_loading' = TRUE
    /\ tasks' = [tasks EXCEPT ![t].pc = "process"]
    /\ UNCHANGED <<loadRx, loadRxClosed, loadTx, loadTxClosed, loadPc, inputs,
                   current_task, frame_index, spinPc, loading_pane, spinAborted,
                   loadOffered, loadPublished, rollbacks, nonLoadVars>>

\* `this.process_event(area, inputs).await` completes: the task is polled again
TaskProcessed(t) ==
    /\ tasks[t].pc = "process"
    /\ ~tasks[t].aborted
    /\ tasks' = [tasks EXCEPT ![t].pc = "clear_loading"]
    /\ UNCHANGED <<loadRx, loadRxClosed, loadTx, loadTxClosed, loadPc, inputs,
                   current_task, is_loading, frame_index, spinPc, loading_pane,
                   spinAborted, loadOffered, loadPublished, rollbacks, nonLoadVars>>

\* `state.is_loading = false;` under the lock, in the same poll
TaskClearLoading(t) ==
    /\ tasks[t].pc = "clear_loading"
    /\ is_loading' = FALSE
    /\ tasks' = [tasks EXCEPT ![t].pc = "send"]
    /\ UNCHANGED <<loadRx, loadRxClosed, loadTx, loadTxClosed, loadPc, inputs,
                   current_task, frame_index, spinPc, loading_pane, spinAborted,
                   loadOffered, loadPublished, rollbacks, nonLoadVars>>

\* the pane process_event made of the task's batch
ResultPane(t) == <<"result", tasks[t].inputs>>

\* `tx_clone.send(p).await` polled by task t: Err when the receiver is gone, sent
\* when the channel has room, else the task suspends
SendPane(t, p) ==
    IF loadTxClosed
    THEN /\ tasks' = [tasks EXCEPT ![t].pc = "failed"]
         /\ UNCHANGED <<loadTx, loadPublished>>
    ELSE IF Len(loadTx) < ChannelDepth
    THEN /\ tasks' = [tasks EXCEPT ![t].pc = "finished"]
         /\ loadTx' = Append(loadTx, p)
         /\ loadPublished' = Append(loadPublished, tasks[t].inputs)
    ELSE /\ tasks' = [tasks EXCEPT ![t].pc = "send_wait"]
         /\ UNCHANGED <<loadTx, loadPublished>>

\* `tx_clone.send(result).await`, still in the poll that process_event's completion
\* started: it sends at once when the channel has room, else the task suspends
TaskSend(t) ==
    /\ tasks[t].pc = "send"
    /\ SendPane(t, ResultPane(t))
    /\ UNCHANGED <<loadRx, loadRxClosed, loadTxClosed, loadPc, inputs, current_task,
                   is_loading, frame_index, spinPc, loading_pane, spinAborted,
                   loadOffered, rollbacks, nonLoadVars>>

\* the suspended send is woken (room, or receiver gone) and the task polled:
\* this happens only to a task that has not been aborted
TaskSendResume(t) ==
    /\ tasks[t].pc = "send_wait"
    /\ ~tasks[t].aborted
    /\ loadTxClosed \/ Len(loadTx) < ChannelDepth
    /\ SendPane(t, ResultPane(t))
    /\ UNCHANGED <<loadRx, loadRxClosed, loadTxClosed, loadPc, inputs, current_task,
                   is_loading, frame_index, spinPc, loading_pane, spinAborted,
                   loadOffered, rollbacks, nonLoadVars>>

\* an aborted task is dropped: when it is suspended, or when the poll it is in
\* yields at one of its awaits
TaskCancel(t) ==
    /\ tasks[t].aborted
    /\ tasks[t].pc \notin Final
    /\ tasks' = [tasks EXCEPT ![t].pc = "cancelled"]
    /\ UNCHANGED <<loadRx, loadRxClosed, loadTx, loadTxClosed, loadPc, inputs,
                   current_task, is_loading, frame_index, spinPc, loading_pane,
                   spinAborted, loadOffered, loadPublished, rollbacks, nonLoadVars>>

\* loading_task: the interval ticks while is_loading; it takes the next frame
\* (when is_loading is false the tick changes nothing: `continue`)
SpinTick ==
    /\ spinPc = "tick"
    /\ ~spinAborted
    /\ is_loading
    /\ loading_pane' = Some(<<"frame", frame_index>>)
    /\ frame_index' = (frame_index + 1) % LoadingFrames
    /\ spinPc' = "send"
    /\ UNCHANGED <<loadRx, loadRxClosed, loadTx, loadTxClosed, loadPc, inputs,
                   current_task, tasks, is_loading, spinAborted, loadOffered,
                   loadPublished, rollbacks, nonLoadVars>>

\* loading_task: `tx.send(loading_pane).await`; Err breaks the loop
SpinSend ==
    /\ spinPc \in {"send", "send_wait"}
    /\ spinPc = "send_wait" => ~spinAborted /\ (loadTxClosed \/ Len(loadTx) < ChannelDepth)
    /\ IF loadTxClosed
       THEN spinPc' = "done" /\ loading_pane' = None /\ UNCHANGED loadTx
       ELSE IF Len(loadTx) < ChannelDepth
       THEN /\ loadTx' = Append(loadTx, loading_pane[1])
            /\ loading_pane' = None
            /\ spinPc' = "tick"
       ELSE spinPc' = "send_wait" /\ UNCHANGED <<loadTx, loading_pane>>
    /\ UNCHANGED <<loadRx, loadRxClosed, loadTxClosed, loadPc, inputs, current_task,
                   tasks, is_loading, frame_index, spinAborted, loadOffered,
                   loadPublished, rollbacks, nonLoadVars>>

\* the aborted loading_task is dropped
SpinCancel ==
    /\ spinAborted
    /\ spinPc \in {"tick", "send", "send_wait"}
    /\ spinPc' = "cancelled"
    /\ loading_pane' = None
    /\ UNCHANGED <<loadRx, loadRxClosed, loadTx, loadTxClosed, loadPc, inputs,
                   current_task, tasks, is_loading, frame_index, spinAborted,
                   loadOffered, loadPublished, rollbacks, nonLoadVars>>

\* the consumer takes the next pane off the output channel
LoadPaneRecv ==
    /\ ~loadTxClosed
    /\ loadTx # <<>>
    /\ loadTx' = Tail(loadTx)
    /\ UNCHANGED <<loadRx, loadRxClosed, loadTxClosed, loadPc, inputs, current_task,
                   tasks, is_loading, frame_index, spinPc, loading_pane, spinAborted,
                   loadOffered, loadPublished, rollbacks, nonLoadVars>>

\* the consumer drops its receiver (and whatever the channel still held)
LoadPaneClose ==
    /\ ~loadTxClosed
    /\ loadTxClosed' = TRUE
    /\ loadTx' = <<>>
    /\ UNCHANGED <<loadRx, loadRxClosed, loadPc, inputs, current_task, tasks,
                   is_loading, frame_index, spinPc, loading_pane, spinAborted,
                   loadOffered, loadPublished, rollbacks, nonLoadVars>>

LoadingInit ==
    /\ WizardIdle
    /\ SessionIdle
    /\ CoordinatorIdle
    /\ LoadingIdle
    /\ EvaluatorIdle
    /\ OrchestratorIdle
    /\ SyncIdle
    /\ SnapshotIdle
    /\ GroupIdle
    /\ RunInit
    /\ impl = "TimeBasedOperator"

LoadingNext ==
    \/ LoadOffer
    \/ LoadCloseInput
    \/ LoadRecvSpawn
    \/ LoadRecvAbort
    \/ LoadClearSpawn
    \/ LoadElse
    \/ \E t \in TaskIds :
          \/ TaskStart(t)
          \/ TaskProcessed(t)
          \/ TaskClearLoading(t)
          \/ TaskSend(t)
          \/ TaskSendResume(t)
          \/ TaskCancel(t)
    \/ SpinTick
    \/ SpinSend
    \/ SpinCancel
    \/ LoadPaneRecv
    \/ LoadPaneClose

SpecLoading == LoadingInit /\ [][LoadingNext]_vars

(***************************************************************************)
(* Claims about the Loading component.                                     *)
(***************************************************************************)
\* a process_event task is live: spawned, neither finished nor aborted
Live(t) == tasks[t].pc \notin Final /\ ~tasks[t].aborted

\* task t was aborted by a later batch before it had published its result
Superseded(t) == tasks[t].aborted /\ tasks[t].abortedAt \notin Final

\* C18: at every moment at most one process_event task is live, and it is the one
\* current_task holds; when a task is spawned the handle of the previous one has
\* been taken out of current_task and aborted (every earlier task is aborted), and
\* current_task then holds the new task.
C18_AtMostOneLiveTask ==
    /\ [](Cardinality({t \in TaskIds : Live(t)}) <= 1)
    /\ [](\A t \in TaskIds : Live(t) => current_task = Some(t))
    /\ [][Len(tasks') > Len(tasks) =>
            /\ current_task = None
            /\ \A t \in TaskIds : tasks[t].aborted
            /\ current_task' = Some(Len(tasks'))]_vars

C18_Witness ==
    /\ Len(tasks) = 2
    /\ tasks[1].aborted /\ tasks[1].pc = "process"
    /\ Live(2) /\ tasks[2].pc = "process"
    /\ current_task = Some(2)

\* C19 as claimed: when a batch is received while the task of an earlier batch has
\* not yet published its result, no result pane of the earlier batch is ever sent on
\* the output channel.
C19_Claimed_NoPaneForSupersededTask ==
    \A t \in TaskIds :
        Superseded(t) => \A i \in 1..Len(loadPublished) : loadPublished[i] # tasks[t].inputs

\* C20 as claimed: run calls rollback_state once per supersession, after the abort
\* and before the new task starts: when the task that supersedes has been spawned,
\* there has been one call for each superseded task.
C20_Claimed_RollbackOnSupersession ==
    rollbacks = Cardinality({t \in TaskIds : t < Len(tasks) /\ Superseded(t)})

\* the step in which the output channel accepts a spinner frame
SpinnerFrameSent == loading_pane # None /\ loadTx' = Append(loadTx, loading_pane[1])

\* task t ran to completion unsuperseded and its result pane was accepted
Completed(t) == tasks[t].pc = "finished" /\ ~tasks[t].aborted

\* C21 as claimed: once the task of the last batch has completed and no further
\* input can arrive (the input channel is closed and drained), its result pane is
\* the last pane published: no spinner frame is sent after it.
C21_Claimed_ResultPaneSupersedesSpinner ==
    [][(/\ tasks # <<>>
        /\ Completed(Len(tasks))
        /\ loadRxClosed /\ loadRx = <<>>
        /\ loadPc = "select"
        /\ ~spinAborted) => ~SpinnerFrameSent]_vars

\* C22 as claimed: once a spinner send has failed on the closed output channel
\* (the loading_task broke out of its loop), the run loop stops: it takes no
\* further batch off its input and spawns no further process task.
C22_Claimed_SpinnerSendFailureStopsRun ==
    [][spinPc = "done" =>
          /\ Len(tasks') = Len(tasks)
          /\ Len(loadRx') >= Len(loadRx)]_vars

(***************************************************************************)
(* SpecEvaluator: the run loop of an Evaluator                             *)
(* (src/src/component/evaluate.rs:30-178).                                 *)
(*                                                                         *)
(*   current_task = None; loading_state = { frame_index: 0, state: Idle }; *)
(*   event_queue = VecDeque::new(); loading_task = spawn(spinner);         *)
(*   loop {                                                                *)
(*     select! {                                                           *)
(*       Some(query) = query_rx.recv() => {                                *)
(*           if let Some(task) = current_task.take() { task.abort(); }     *)
(*           event_queue.clear();                                          *)
(*           current_task = Some(spawn(async {                             *)
(*               { lock; state = ProcessQuery }                            *)
(*               let result = this.process_query(area, query).await;       *)
(*               { lock; state = Idle }                                    *)
(*               tx_clone.send(result).await })) }                         *)
(*       Some(events) = events_rx.recv() => {                              *)
(*           match loading_state.lock().await.state.clone() {              *)
(*             ProcessQuery => { continue; }                               *)
(*             ProcessEvents => { event_queue.push_back(events); }         *)
(*             Idle => {                                                   *)
(*               let process_task = spawn(async {                          *)
(*                   { lock; state = ProcessEvents }                       *)
(*                   let result = this.process_events(area, events).await; *)
(*                   { lock; state = Idle }                                *)
(*                   tx_clone.send(result).await });                       *)
(*               if let Some(task) = current_task.take() { task.abort(); } *)
(*               current_task = Some(process_task); } } }                  *)
(*       else => { loading_task.abort(); break; } }                        *)
(*     if let Some(events) = event_queue.pop_front() {                     *)
(*         if loading_state.lock().await.state == Idle {                   *)
(*             spawn the same process_events task for events;              *)
(*             if let Some(task) = current_task.take() { task.abort(); }   *)
(*             current_task = Some(process_task); } } }                    *)
(*                                                                         *)
(* The state is written by the spawned tasks, not by run. The tasks run in *)
(* parallel with run on a multi-threaded runtime, as in SpecLoading.       *)
(***************************************************************************)
MaxEvalInputs == 2

EvTaskIds == 1..Len(evTasks)

\* the orchestrator sends the next query (the k-th query sent is named k)
EvOfferQuery ==
    /\ ~evQueryClosed
    /\ evQueries + evBatches < MaxEvalInputs
    /\ Len(evQueryRx) < ChannelDepth
    /\ evQueryRx' = Append(evQueryRx, evQueries + 1)
    /\ evQueries' = evQueries + 1
    /\ UNCHANGED <<evQueryClosed, evEventsRx, evEventsClosed, evTx, evTxClosed, evPc,
                   event_queue, evCurrentTask, evTasks, evState, evFrameIndex, evSpinPc,
                   evLoadingPane, evSpinAborted, evBatches, nonEvalVars>>

\* the orchestrator sends the next events batch (the k-th batch sent is named k)
EvOfferEvents ==
    /\ ~evEventsClosed
    /\ evQueries + evBatches < MaxEvalInputs
    /\ Len(evEventsRx) < ChannelDepth
    /\ evEventsRx' = Append(evEventsRx, evBatches + 1)
    /\ evBatches' = evBatches + 1
    /\ UNCHANGED <<evQueryRx, evQueryClosed, evEventsClosed, evTx, evTxClosed, evPc,
                   event_queue, evCurrentTask, evTasks, evState, evFrameIndex, evSpinPc,
                   evLoadingPane, evSpinAborted, evQueries, nonEvalVars>>

\* the orchestrator drops its query sender
EvCloseQueries ==
    /\ ~evQueryClosed
    /\ evQueryClosed' = TRUE
    /\ UNCHANGED <<evQueryRx, evEventsRx, evEventsClosed, evTx, evTxClosed, evPc,
                   event_queue, evCurrentTask, evTasks, evState, evFrameIndex, evSpinPc,
                   evLoadingPane, evSpinAborted, evQueries, evBatches, nonEvalVars>>

\* the orchestrator drops its events sender
EvCloseEvents ==
    /\ ~evEventsClosed
    /\ evEventsClosed' = TRUE
    /\ UNCHANGED <<evQueryRx, evQueryClosed, evEventsRx, evTx, evTxClosed, evPc,
                   event_queue, evCurrentTask, evTasks, evState, evFrameIndex, evSpinPc,
                   evLoadingPane, evSpinAborted, evQueries, evBatches, nonEvalVars>>

\* a task as tokio::spawn returns it: not yet polled
NewTask(kind, input) ==
    [kind |-> kind, input |-> input, pc |-> "spawned", aborted |-> FALSE,
     abortedAt |-> "-", abortedBy |-> "-"]

\* `if let Some(task) = current_task.take() { task.abort(); }` in the arm `by`
AbortCurrent(by) ==
    IF evCurrentTask = None
    THEN evTasks
    ELSE [evTasks EXCEPT ![evCurrentTask[1]].aborted = TRUE,
                         ![evCurrentTask[1]].abortedAt = evTasks[evCurrentTask[1]].pc,
                         ![evCurrentTask[1]].abortedBy = by]

\* the query arm: abort the current task, clear the queue, spawn process_query;
\* the drain that ends the iteration finds the queue empty
EvQuery ==
    /\ evPc = "select"
    /\ evQueryRx # <<>>
    /\ evQueryRx' = Tail(evQueryRx)
    /\ event_queue' = <<>>
    /\ evTasks' = Append(AbortCurrent("query"), NewTask("query", Head(evQueryRx)))
    /\ evCurrentTask' = Some(Len(evTasks) + 1)
    /\ UNCHANGED <<evQueryClosed, evEventsRx, evEventsClosed, evTx, evTxClosed, evPc,
                   evState, evFrameIndex, evSpinPc, evLoadingPane, evSpinAborted,
                   evQueries, evBatches, nonEvalVars>>

\* the events arm with the batch put on the queue also in state ProcessQuery
EvEvents_EnqueuesInProcessQuery ==
    /\ evPc = "select"
    /\ evEventsRx # <<>>
    /\ evEventsRx' = Tail(evEventsRx)
    /\ IF evState \in {"ProcessQuery", "ProcessEvents"}
       THEN /\ event_queue' = Append(event_queue, Head(evEventsRx))
            /\ evPc' = "drain"
            /\ UNCHANGED evTasks
       ELSE /\ evTasks' = Append(evTasks, NewTask("events", Head(evEventsRx)))
            /\ evPc' = "abort_prev"
            /\ UNCHANGED event_queue
    /\ UNCHANGED <<evQueryRx, evQueryClosed, evEventsClosed, evTx, evTxClosed,
                   evCurrentTask, evState, evFrameIndex, evSpinPc, evLoadingPane,
                   evSpinAborted, evQueries, evBatches, nonEvalVars>>

\* the events arm: it reads the state under the lock; ProcessQuery drops the
\* batch and `continue`s (past the drain), ProcessEvents puts it on the queue,
\* Idle spawns process_events for it (the previous handle is aborted next)
EvEvents ==
    /\ evPc = "select"
    /\ evEventsRx # <<>>
    /\ evEventsRx' = Tail(evEventsRx)
    /\ CASE evState = "ProcessQuery" ->
              UNCHANGED <<event_queue, evPc, evTasks>>
         [] evState = "ProcessEvents" ->
              /\ event_queue' = Append(event_queue, Head(evEventsRx))
              /\ evPc' = "drain"
              /\ UNCHANGED evTasks
         [] evState = "Idle" ->
              /\ evTasks' = Append(evTasks, NewTask("events", Head(evEventsRx)))
              /\ evPc' = "abort_prev"
              /\ UNCHANGED event_queue
    /\ UNCHANGED <<evQueryRx, evQueryClosed, evEventsClosed, evTx, evTxClosed,
                   evCurrentTask, evState, evFrameIndex, evSpinPc, evLoadingPane,
                   evSpinAborted, evQueries, evBatches, nonEvalVars>>

\* the Idle arm after the spawn: abort the previous task, keep the new handle
EvAbortPrev ==
    /\ evPc = "abort_prev"
    /\ evTasks' = AbortCurrent("events")
    /\ evCurrentTask' = Some(Len(evTasks))
    /\ evPc' = "drain"
    /\ UNCHANGED <<evQueryRx, evQueryClosed, evEventsRx, evEventsClosed, evTx,
                   evTxClosed, event_queue, evState, evFrameIndex, evSpinPc,
                   evLoadingPane, evSpinAborted, evQueries, evBatches, nonEvalVars>>

\* the end of the iteration: `event_queue.pop_front()`, then the state is read
\* under the lock; the popped batch is started only when the state is Idle
EvDrain ==
    /\ evPc = "drain"
    /\ IF event_queue = <<>>
       THEN /\ evPc' = "select"
            /\ UNCHANGED <<event_queue, evTasks>>
       ELSE /\ event_queue' = Tail(event_queue)
            /\ IF evState = "Idle"
               THEN /\ evTasks' = Append(evTasks, NewTask("events", Head(event_queue)))
                    /\ evPc' = "drain_abort"
               ELSE /\ evPc' = "select"
                    /\ UNCHANGED evTasks
    /\ UNCHANGED <<evQueryRx, evQueryClosed, evEventsRx, evEventsClosed, evTx,
                   evTxClosed, evCurrentTask, evState, evFrameIndex, evSpinPc,
                   evLoadingPane, evSpinAborted, evQueries, evBatches, nonEvalVars>>

\* the drain after the spawn: abort the previous task, keep the new handle
EvDrainAbortPrev ==
    /\ evPc = "drain_abort"
    /\ evTasks' = AbortCurrent("events")
    /\ evCurrentTask' = Some(Len(evTasks))
    /\ evPc' = "select"
    /\ UNCHANGED <<evQueryRx, evQueryClosed, evEventsRx, evEventsClosed, evTx,
                   evTxClosed, event_queue, evState, evFrameIndex, evSpinPc,
                   evLoadingPane, evSpinAborted, evQueries, evBatches, nonEvalVars>>

\* both recv() return None, no pattern matches: the else arm aborts the spinner
\* and breaks
EvElse ==
    /\ evPc = "select"
    /\ evQueryRx = <<>> /\ evQueryClosed
    /\ evEventsRx = <<>> /\ evEventsClosed
    /\ evSpinAborted' = TRUE
    /\ evPc' = "done"
    /\ UNCHANGED <<evQueryRx, evQueryClosed, evEventsRx, evEventsClosed, evTx,
                   evTxClosed, event_queue, evCurrentTask, evTasks, evState,
                   evFrameIndex, evSpinPc, evLoadingPane, evQueries, evBatches,
                   nonEvalVars>>

\* what a task of this kind writes to loading_state.state when it starts
StateOf(kind) == IF kind = "query" THEN "ProcessQuery" ELSE "ProcessEvents"

\* a process task is polled for the first time: it sets the state under the
\* lock, then awaits process_query / process_events
EvTaskStart(t) ==
    /\ evTasks[t].pc = "spawned"
    /\ ~evTasks[t].aborted
    /\ evState' = StateOf(evTasks[t].kind)
    /\ evTasks' = [evTasks EXCEPT ![t].pc = "process"]
    /\ UNCHANGED <<evQueryRx, evQueryClosed, evEventsRx, evEventsClosed, evTx,
                   evTxClosed, evPc, event_queue, evCurrentTask, evFrameIndex, evSpinPc,
                   evLoadingPane, evSpinAborted, evQueries, evBatches, nonEvalVars>>

\* process_query / process_events completes: the task is polled again
EvTaskProcessed(t) ==
    /\ evTasks[t].pc = "process"
    /\ ~evTasks[t].aborted
    /\ evTasks' = [evTasks EXCEPT ![t].pc = "set_idle"]
    /\ UNCHANGED <<evQueryRx, evQueryClosed, evEventsRx, evEventsClosed, evTx,
                   evTxClosed, evPc, event_queue, evCurrentTask, evState, evFrameIndex,
                   evSpinPc, evLoadingPane, evSpinAborted, evQueries, evBatches,
                   nonEvalVars>>

\* `state.state = State::Idle;` under the lock, in the same poll
EvTaskSetIdle(t) ==
    /\ evTasks[t].pc = "set_idle"
    /\ evState' = "Idle"
    /\ evTasks' = [evTasks EXCEPT ![t].pc = "send"]
    /\ UNCHANGED <<evQueryRx, evQueryClosed, evEventsRx, evEventsClosed, evTx,
                   evTxClosed, evPc, event_queue, evCurrentTask, evFrameIndex, evSpinPc,
                   evLoadingPane, evSpinAborted, evQueries, evBatches, nonEvalVars>>

\* the pane process_query / process_events made of the task's input
EvResultPane(t) == <<"result", evTasks[t].kind, evTasks[t].input>>

\* `tx_clone.send(result).await` polled by task t
EvSendPane(t) ==
    IF evTxClosed
    THEN /\ evTasks' = [evTasks EXCEPT ![t].pc = "failed"]
         /\ UNCHANGED evTx
    ELSE IF Len(evTx) < ChannelDepth
    THEN /\ evTasks' = [evTasks EXCEPT ![t].pc = "finished"]
         /\ evTx' = Append(evTx, EvResultPane(t))
    ELSE /\ evTasks' = [evTasks EXCEPT ![t].pc = "send_wait"]
         /\ UNCHANGED evTx

\* the send in the poll that set the state to Idle
EvTaskSend(t) ==
    /\ evTasks[t].pc = "send"
    /\ EvSendPane(t)
    /\ UNCHANGED <<evQueryRx, evQueryClosed, evEventsRx, evEventsClosed, evTxClosed,
                   evPc, event_queue, evCurrentTask, evState, evFrameIndex, evSpinPc,
                   evLoadingPane, evSpinAborted, evQueries, evBatches, nonEvalVars>>

\* the suspended send is woken and the task polled: only when not aborted
EvTaskSendResume(t) ==
    /\ evTasks[t].pc = "send_wait"
    /\ ~evTasks[t].aborted
    /\ evTxClosed \/ Len(evTx) < ChannelDepth
    /\ EvSendPane(t)
    /\ UNCHANGED <<evQueryRx, evQueryClosed, evEventsRx, evEventsClosed, evTxClosed,
                   evPc, event_queue, evCurrentTask, evState, evFrameIndex, evSpinPc,
                   evLoadingPane, evSpinAborted, evQueries, evBatches, nonEvalVars>>

\* an aborted task is dropped: when it is suspended, or when the poll it is in
\* yields at one of its awaits
EvTaskCancel(t) ==
    /\ evTasks[t].aborted
    /\ evTasks[t].pc \notin Final
    /\ evTasks' = [evTasks EXCEPT ![t].pc = "cancelled"]
    /\ UNCHANGED <<evQueryRx, evQueryClosed, evEventsRx, evEventsClosed, evTx,
                   evTxClosed, evPc, event_queue, evCurrentTask, evState, evFrameIndex,
                   evSpinPc, evLoadingPane, evSpinAborted, evQueries, evBatches,
                   nonEvalVars>>

\* loading_task: the interval ticks while the state is not Idle; it takes the
\* next frame (when the state is Idle the tick changes nothing: `continue`)
EvSpinTick ==
    /\ evSpinPc = "tick"
    /\ ~evSpinAborted
    /\ evState # "Idle"
    /\ evLoadingPane' = Some(<<"frame", evFrameIndex>>)
    /\ evFrameIndex' = (evFrameIndex + 1) % LoadingFrames
    /\ evSpinPc' = "send"
    /\ UNCHANGED <<evQueryRx, evQueryClosed, evEventsRx, evEventsClosed, evTx,
                   evTxClosed, evPc, event_queue, evCurrentTask, evTasks, evState,
                   evSpinAborted, evQueries, evBatches, nonEvalVars>>

\* loading_task: `tx.send(loading_pane).await`; Err breaks the loop
EvSpinSend ==
    /\ evSpinPc \in {"send", "send_wait"}
    /\ evSpinPc = "send_wait" => ~evSpinAborted /\ (evTxClosed \/ Len(evTx) < ChannelDepth)
    /\ IF evTxClosed
       THEN evSpinPc' = "done" /\ evLoadingPane' = None /\ UNCHANGED evTx
       ELSE IF Len(evTx) < ChannelDepth
       THEN /\ evTx' = Append(evTx, evLoadingPane[1])
            /\ evLoadingPane' = None
            /\ evSpinPc' = "tick"
       ELSE evSpinPc' = "send_wait" /\ UNCHANGED <<evTx, evLoadingPane>>
    /\ UNCHANGED <<evQueryRx, evQueryClosed, evEventsRx, evEventsClosed, evTxClosed,
                   evPc, event_queue, evCurrentTask, evTasks, evState, evFrameIndex,
                   evSpinAborted, evQueries, evBatches, nonEvalVars>>

\* the aborted loading_task is dropped
EvSpinCancel ==
    /\ evSpinAborted
    /\ evSpinPc \in {"tick", "send", "send_wait"}
    /\ evSpinPc' = "cancelled"
    /\ evLoadingPane' = None
    /\ UNCHANGED <<evQueryRx, evQueryClosed, evEventsRx, evEventsClosed, evTx,
                   evTxClosed, evPc, event_queue, evCurrentTask, evTasks, evState,
                   evFrameIndex, evSpinAborted, evQueries, evBatches, nonEvalVars>>

\* the consumer takes the next pane off the output channel
EvPaneRecv ==
    /\ ~evTxClosed
    /\ evTx # <<>>
    /\ evTx' = Tail(evTx)
    /\ UNCHANGED <<evQueryRx, evQueryClosed, evEventsRx, evEventsClosed, evTxClosed,
                   evPc, event_queue, evCurrentTask, evTasks, evState, evFrameIndex,
                   evSpinPc, evLoadingPane, evSpinAborted, evQueries, evBatches,
                   nonEvalVars>>

\* the consumer drops its receiver (and whatever the channel still held)
EvPaneClose ==
    /\ ~evTxClosed
    /\ evTxClosed' = TRUE
    /\ evTx' = <<>>
    /\ UNCHANGED <<evQueryRx, evQueryClosed, evEventsRx, evEventsClosed, evPc,
                   event_queue, evCurrentTask, evTasks, evState, evFrameIndex, evSpinPc,
                   evLoadingPane, evSpinAborted, evQueries, evBatches, nonEvalVars>>

EvaluatorInit ==
    /\ WizardIdle
    /\ SessionIdle
    /\ CoordinatorIdle
    /\ EvaluatorIdle
    /\ OrchestratorIdle
    /\ LoadingIdle
    /\ SyncIdle
    /\ SnapshotIdle
    /\ GroupIdle
    /\ RunInit
    /\ impl = "TimeBasedOperator"

EvaluatorNext ==
    \/ EvOfferQuery
    \/ EvOfferEvents
    \/ EvCloseQueries
    \/ EvCloseEvents
    \/ EvQuery
    \/ EvEvents
    \/ EvAbortPrev
    \/ EvDrain
    \/ EvDrainAbortPrev
    \/ EvElse
    \/ \E t \in EvTaskIds :
          \/ EvTaskStart(t)
          \/ EvTaskProcessed(t)
          \/ EvTaskSetIdle(t)
          \/ EvTaskSend(t)
          \/ EvTaskSendResume(t)
          \/ EvTaskCancel(t)
    \/ EvSpinTick
    \/ EvSpinSend
    \/ EvSpinCancel
    \/ EvPaneRecv
    \/ EvPaneClose

SpecEvaluator == EvaluatorInit /\ [][EvaluatorNext]_vars

(***************************************************************************)
(* Claims about the Evaluator.                                             *)
(***************************************************************************)
\* a process task is live: spawned, neither finished nor aborted
EvLive(t) == evTasks[t].pc \notin Final /\ ~evTasks[t].aborted

\* the step in which run takes a query / an events batch off its channel
QueryArrives == evQueryRx # <<>> /\ evQueryRx' = Tail(evQueryRx)
EventsArrive == evEventsRx # <<>> /\ evEventsRx' = Tail(evEventsRx)

\* how many batches run has received
EvBatchesReceived == evBatches - Len(evEventsRx)

\* the inputs of the tasks of one kind, in spawn order
RECURSIVE InputsOf(_, _)
InputsOf(kind, n) ==
    IF n = 0 THEN <<>>
    ELSE IF evTasks[n].kind = kind
    THEN Append(InputsOf(kind, n - 1), evTasks[n].input)
    ELSE InputsOf(kind, n - 1)

\* the process_query task accepted last is in flight: its result is not published
QueryInFlight ==
    /\ evCurrentTask # None
    /\ evTasks[evCurrentTask[1]].kind = "query"
    /\ evTasks[evCurrentTask[1]].pc \notin Final

\* C23 as claimed: when a query arrives, in any state, the current task (if any)
\* is aborted, the pending queue is emptied and a process_query task for the query
\* is started and kept as the current task; no result pane of a task that a query
\* aborted before it had published is published.
C23_Claimed_QuerySupersedes ==
    /\ [][QueryArrives =>
            /\ evCurrentTask # None => evTasks'[evCurrentTask[1]].aborted
            /\ event_queue' = <<>>
            /\ Len(evTasks') = Len(evTasks) + 1
            /\ evTasks'[Len(evTasks')] = NewTask("query", Head(evQueryRx))
            /\ evCurrentTask' = Some(Len(evTasks'))]_vars
    /\ [](\A t \in EvTaskIds :
            (evTasks[t].abortedBy = "query" /\ evTasks[t].abortedAt \notin Final)
                => evTasks[t].pc # "finished")

\* C24 as claimed: an events batch that arrives while a process_query task is in
\* flight (accepted, result not yet published) is discarded: it starts no task,
\* is not queued, and the query task is not aborted.
C24_Claimed_EventsDiscardedDuringQuery ==
    [][(EventsArrive /\ QueryInFlight) =>
          /\ evTasks' = evTasks
          /\ event_queue' = event_queue
          /\ evCurrentTask' = evCurrentTask]_vars

\* C25 as claimed: an events batch that arrives in state ProcessQuery is appended
\* to the pending queue and is not started.
C25_Claimed_EventsQueuedInProcessQuery ==
    [][(EventsArrive /\ evState = "ProcessQuery") =>
          /\ event_queue' = Append(event_queue, Head(evEventsRx))
          /\ evTasks' = evTasks]_vars

\* C25: an events batch that arrives in state ProcessQuery is discarded: it is
\* not appended to the pending queue, no task is started or aborted for it, and
\* run goes back to its select.
C25_EventsDiscardedInProcessQuery ==
    [][(EventsArrive /\ evState = "ProcessQuery") =>
          /\ event_queue' = event_queue
          /\ evTasks' = evTasks
          /\ evCurrentTask' = evCurrentTask
          /\ evPc' = "select"]_vars

\* a query is being processed, the one batch sent was received meanwhile and
\* left no trace: no task, nothing queued
C25_Witness ==
    /\ evQueries = 1 /\ evBatches = 1
    /\ evQueryRx = <<>> /\ evEventsRx = <<>>
    /\ evPc = "select"
    /\ evState = "ProcessQuery"
    /\ Len(evTasks) = 1
    /\ evTasks[1].kind = "query" /\ evTasks[1].pc = "process" /\ EvLive(1)
    /\ event_queue = <<>>

\* C26 as claimed: when no query arrives, no batch is lost: every batch received
\* has been started by process_events or is still in the pending queue, in
\* arrival order (so that each is processed once the evaluator is Idle).
C26_Claimed_QueuedBatchesProcessedFifo ==
    evQueries = 0 =>
        InputsOf("events", Len(evTasks)) \o event_queue
            = [k \in 1..EvBatchesReceived |-> k]

\* C27 as claimed: a batch leaves the pending queue only by a query clearing the
\* queue or, the state being Idle, by process_events being started for it, oldest
\* first.
C27_Claimed_DrainOnlyWhenIdle ==
    [][Len(event_queue') < Len(event_queue) =>
          \/ QueryArrives
          \/ /\ evState = "Idle"
             /\ event_queue' = Tail(event_queue)
             /\ evTasks' = Append(evTasks, NewTask("events", Head(event_queue)))]_vars

\* C28 as claimed: at every moment at most one processing task is live.
C28_Claimed_AtMostOneLiveTask ==
    Cardinality({t \in EvTaskIds : EvLive(t)}) <= 1

(***************************************************************************)
(* SpecDebouncer: one debouncer task, spawn_debouncer of src/src/lib.rs    *)
(* (39-66) or EventBuffer::run_resize of src/src/event_buffer.rs (59-89).  *)
(*                                                                         *)
(*   let mut last_query = None;                                            *)
(*   loop {                                                                *)
(*       let delay = Delay::new(duration);                                 *)
(*       select! {                                                         *)
(*           maybe_query = debounce_rx.recv() => {                         *)
(*               if let Some(query) = maybe_query { last_query = Some(query); } *)
(*               else { break; } },                                        *)
(*           _ = delay => {                                                *)
(*               if let Some(text) = last_query.take() {                   *)
(*                   let _ = last_tx.send(text).await; } }, } }            *)
(*                                                                         *)
(* run_resize is the same loop over (width, height); it sends              *)
(* EventBundle::Resize(width, height) and returns the send's error         *)
(* (`.await?`). The delay is made anew in every iteration: it elapses when *)
(* nothing was received for the duration.                                  *)
(***************************************************************************)
MaxDebValues == 3

DebImpls == {"spawn_debouncer", "run_resize"}

\* (width, height) values
DebValues == {<<80, 24>>, <<80, 25>>, <<100, 30>>}

\* what is sent for the retained value v
Out(v) == IF debImpl = "run_resize" THEN <<"Resize", v[1], v[2]>> ELSE v

\* the values received since the last flush
Window == SubSeq(debReceived, debMark + 1, Len(debReceived))

\* a producer sends a value
DebOffer ==
    /\ ~debRxClosed
    /\ debOffered < MaxDebValues
    /\ Len(debounce_rx) < ChannelDepth
    /\ \E v \in DebValues : debounce_rx' = Append(debounce_rx, v)
    /\ debOffered' = debOffered + 1
    /\ UNCHANGED <<debImpl, debRxClosed, last_query, debPc, text, last_tx, debTxClosed,
                   debAborted, debReceived, debMark, debEmitted, orchVars, nonOrchVars>>

\* the producer drops its sender
DebCloseInput ==
    /\ ~debRxClosed
    /\ debRxClosed' = TRUE
    /\ UNCHANGED <<debImpl, debounce_rx, last_query, debPc, text, last_tx, debTxClosed,
                   debAborted, debOffered, debReceived, debMark, debEmitted,
                   orchVars, nonOrchVars>>

\* the recv arm that keeps the value it already holds
DebRecv_KeepsFirst ==
    /\ debPc = "select"
    /\ ~debAborted
    /\ debounce_rx # <<>>
    /\ last_query' = IF last_query = None THEN Some(Head(debounce_rx)) ELSE last_query
    /\ debounce_rx' = Tail(debounce_rx)
    /\ debReceived' = Append(debReceived, Head(debounce_rx))
    /\ UNCHANGED <<debImpl, debRxClosed, debPc, text, last_tx, debTxClosed, debAborted,
                   debOffered, debMark, debEmitted, orchVars, nonOrchVars>>

\* the recv arm: `last_query = Some(query);`
DebRecv ==
    /\ debPc = "select"
    /\ ~debAborted
    /\ debounce_rx # <<>>
    /\ last_query' = Some(Head(debounce_rx))
    /\ debounce_rx' = Tail(debounce_rx)
    /\ debReceived' = Append(debReceived, Head(debounce_rx))
    /\ UNCHANGED <<debImpl, debRxClosed, debPc, text, last_tx, debTxClosed, debAborted,
                   debOffered, debMark, debEmitted, orchVars, nonOrchVars>>

\* the recv arm on None: `break`
DebRecvNone ==
    /\ debPc = "select"
    /\ ~debAborted
    /\ debounce_rx = <<>>
    /\ debRxClosed
    /\ debPc' = "done"
    /\ UNCHANGED <<debImpl, debounce_rx, debRxClosed, last_query, text, last_tx,
                   debTxClosed, debAborted, debOffered, debReceived, debMark, debEmitted,
                   orchVars, nonOrchVars>>

\* the delay arm that reads the retained value without taking it
DebDelay_PeeksRetained ==
    /\ debPc = "select"
    /\ ~debAborted
    /\ IF last_query = None
       THEN UNCHANGED <<text, debMark, debPc>>
       ELSE /\ text' = last_query
            /\ debMark' = Len(debReceived)
            /\ debPc' = "send"
    /\ UNCHANGED <<debImpl, debounce_rx, debRxClosed, last_query, last_tx, debTxClosed,
                   debAborted, debOffered, debReceived, debEmitted, orchVars,
                   nonOrchVars>>

\* the delay arm: `last_query.take()`; with None the iteration ends at once,
\* with Some(text) the send begins
DebDelay ==
    /\ debPc = "select"
    /\ ~debAborted
    /\ IF last_query = None
       THEN UNCHANGED <<last_query, text, debMark, debPc>>
       ELSE /\ text' = last_query
            /\ last_query' = None
            /\ debMark' = Len(debReceived)
            /\ debPc' = "send"
    /\ UNCHANGED <<debImpl, debounce_rx, debRxClosed, last_tx, debTxClosed, debAborted,
                   debOffered, debReceived, debEmitted, orchVars, nonOrchVars>>

\* `last_tx.send(text).await`: it waits for room; on a closed channel
\* spawn_debouncer drops the error, run_resize returns it
DebSend ==
    /\ debPc = "send"
    /\ debTxClosed \/ Len(last_tx) < ChannelDepth
    /\ text' = None
    /\ IF debTxClosed
       THEN /\ debPc' = IF debImpl = "run_resize" THEN "failed" ELSE "select"
            /\ UNCHANGED <<last_tx, debEmitted>>
       ELSE /\ last_tx' = Append(last_tx, Out(text[1]))
            /\ debEmitted' = Append(debEmitted, Out(text[1]))
            /\ debPc' = "select"
    /\ UNCHANGED <<debImpl, debounce_rx, debRxClosed, last_query, debTxClosed,
                   debAborted, debOffered, debReceived, debMark, orchVars, nonOrchVars>>

\* the consumer takes the next output
DebOutRecv ==
    /\ ~debTxClosed
    /\ last_tx # <<>>
    /\ last_tx' = Tail(last_tx)
    /\ UNCHANGED <<debImpl, debounce_rx, debRxClosed, last_query, debPc, text,
                   debTxClosed, debAborted, debOffered, debReceived, debMark, debEmitted,
                   orchVars, nonOrchVars>>

\* the consumer drops its receiver
DebOutClose ==
    /\ ~debTxClosed
    /\ debTxClosed' = TRUE
    /\ last_tx' = <<>>
    /\ UNCHANGED <<debImpl, debounce_rx, debRxClosed, last_query, debPc, text,
                   debAborted, debOffered, debReceived, debMark, debEmitted,
                   orchVars, nonOrchVars>>

DebouncerInit ==
    /\ WizardIdle
    /\ SessionIdle
    /\ CoordinatorIdle
    /\ debImpl \in DebImpls
    /\ DebouncerIdle
    /\ RunNotCalled
    /\ EvaluatorIdle
    /\ LoadingIdle
    /\ SyncIdle
    /\ SnapshotIdle
    /\ GroupIdle
    /\ RunInit
    /\ impl = "TimeBasedOperator"

DebouncerNext ==
    \/ DebOffer
    \/ DebCloseInput
    \/ DebRecv
    \/ DebRecvNone
    \/ DebDelay
    \/ DebSend
    \/ DebOutRecv
    \/ DebOutClose

SpecDebouncer == DebouncerInit /\ [][DebouncerNext]_vars

Handles == {"spinning", "query_debouncer", "resize_debouncer", "processor_task"}

\* run returns Err(e) through a `?`
ReturnErr ==
    /\ orchRet' = Some("Err")
    /\ orchPc' = "returned"

\* `enable_raw_mode()?;`
RunEnableRawMode ==
    /\ orchPc = "enable_raw_mode"
    /\ \/ raw_mode' = TRUE /\ orchPc' = "hide_cursor" /\ UNCHANGED orchRet
       \/ ReturnErr /\ UNCHANGED raw_mode
    /\ UNCHANGED <<debImpl, debounce_rx, debRxClosed, last_query, debPc, text, last_tx,
                   debTxClosed, debAborted, debOffered, debReceived, debMark, debEmitted,
                   cursor_hidden, mainPc, resize, procPc, orchAborted, nonOrchVars>>

\* `execute!(io::stdout(), cursor::Hide)?;`
RunHideCursor ==
    /\ orchPc = "hide_cursor"
    /\ \/ cursor_hidden' = TRUE /\ orchPc' = "init_terminal" /\ UNCHANGED orchRet
       \/ ReturnErr /\ UNCHANGED cursor_hidden
    /\ UNCHANGED <<debImpl, debounce_rx, debRxClosed, last_query, debPc, text, last_tx,
                   debTxClosed, debAborted, debOffered, debReceived, debMark, debEmitted,
                   raw_mode, mainPc, resize, procPc, orchAborted, nonOrchVars>>

\* `terminal::size()?`, `cursor::position()?`, `init_terminal.draw(&init_panes)?`
RunInitTerminal ==
    /\ orchPc = "init_terminal"
    /\ \/ orchPc' = "spawn" /\ UNCHANGED orchRet
       \/ ReturnErr
    /\ UNCHANGED <<debImpl, debounce_rx, debRxClosed, last_query, debPc, text, last_tx,
                   debTxClosed, debAborted, debOffered, debReceived, debMark, debEmitted,
                   raw_mode, cursor_hidden, mainPc, resize, procPc, orchAborted,
                   nonOrchVars>>

\* the channels, the debouncers, the spinner and main_task are spawned
RunSpawn ==
    /\ orchPc = "spawn"
    /\ mainPc' = "select"
    /\ orchPc' = "loading"
    /\ UNCHANGED <<debImpl, debounce_rx, debRxClosed, last_query, debPc, text, last_tx,
                   debTxClosed, debAborted, debOffered, debReceived, debMark, debEmitted,
                   raw_mode, cursor_hidden, orchRet, resize, procPc, orchAborted,
                   nonOrchVars>>

\* `wiz.loading::<L>(item).await?`, the draw of the init pane (`?`), then
\* processor_task is spawned
RunLoading ==
    /\ orchPc = "loading"
    /\ \/ procPc' = "select" /\ orchPc' = "await_main" /\ UNCHANGED orchRet
       \/ ReturnErr /\ UNCHANGED procPc
    /\ UNCHANGED <<debImpl, debounce_rx, debRxClosed, last_query, debPc, text, last_tx,
                   debTxClosed, debAborted, debOffered, debReceived, debMark, debEmitted,
                   raw_mode, cursor_hidden, mainPc, resize, orchAborted, nonOrchVars>>

\* `main_task.await??;` once main_task has ended: its error is returned
RunJoinMain ==
    /\ orchPc = "await_main"
    /\ mainPc \in {"ok", "err"}
    /\ IF mainPc = "err"
       THEN ReturnErr
       ELSE orchPc' = "abort" /\ UNCHANGED orchRet
    /\ UNCHANGED <<debImpl, debounce_rx, debRxClosed, last_query, debPc, text, last_tx,
                   debTxClosed, debAborted, debOffered, debReceived, debMark, debEmitted,
                   raw_mode, cursor_hidden, mainPc, resize, procPc, orchAborted,
                   nonOrchVars>>

\* the four abort() calls
RunAbort ==
    /\ orchPc = "abort"
    /\ orchAborted' = Handles
    /\ debAborted' = TRUE
    /\ orchPc' = "show_cursor"
    /\ UNCHANGED <<debImpl, debounce_rx, debRxClosed, last_query, debPc, text, last_tx,
                   debTxClosed, debOffered, debReceived, debMark, debEmitted, raw_mode,
                   cursor_hidden, orchRet, mainPc, resize, procPc, nonOrchVars>>

\* `execute!(io::stdout(), cursor::Show)?;`
RunShowCursor ==
    /\ orchPc = "show_cursor"
    /\ \/ cursor_hidden' = FALSE /\ orchPc' = "disable_raw_mode" /\ UNCHANGED orchRet
       \/ ReturnErr /\ UNCHANGED cursor_hidden
    /\ UNCHANGED <<debImpl, debounce_rx, debRxClosed, last_query, debPc, text, last_tx,
                   debTxClosed, debAborted, debOffered, debReceived, debMark, debEmitted,
                   raw_mode, mainPc, resize, procPc, orchAborted, nonOrchVars>>

\* `disable_raw_mode()?; Ok(())`
RunDisableRawMode ==
    /\ orchPc = "disable_raw_mode"
    /\ \/ raw_mode' = FALSE /\ orchRet' = Some("Ok") /\ orchPc' = "returned"
       \/ ReturnErr /\ UNCHANGED raw_mode
    /\ UNCHANGED <<debImpl, debounce_rx, debRxClosed, last_query, debPc, text, last_tx,
                   debTxClosed, debAborted, debOffered, debReceived, debMark, debEmitted,
                   cursor_hidden, mainPc, resize, procPc, orchAborted, nonOrchVars>>

\* main_task: stream.next() yields Event::Resize(width, height)
MainResize ==
    /\ mainPc = "select"
    /\ debOffered < MaxDebValues
    /\ \E v \in DebValues : resize' = Some(v)
    /\ mainPc' = "send_resize"
    /\ UNCHANGED <<debImpl, debounce_rx, debRxClosed, last_query, debPc, text, last_tx,
                   debTxClosed, debAborted, debOffered, debReceived, debMark, debEmitted,
                   orchPc, raw_mode, cursor_hidden, orchRet, procPc, orchAborted,
                   nonOrchVars>>

\* main_task: `debounce_resize_tx.send((width, height)).await?` with room
MainSendResize ==
    /\ mainPc = "send_resize"
    /\ Len(debounce_rx) < ChannelDepth
    /\ debounce_rx' = Append(debounce_rx, resize[1])
    /\ debOffered' = debOffered + 1
    /\ resize' = None
    /\ mainPc' = "select"
    /\ UNCHANGED <<debImpl, debRxClosed, last_query, debPc, text, last_tx, debTxClosed,
                   debAborted, debReceived, debMark, debEmitted, orchPc, raw_mode,
                   cursor_hidden, orchRet, procPc, orchAborted, nonOrchVars>>

\* main_task: any other event: Action::None continues, MoveCursor and ChangeText
\* redraw, Quit breaks, and size(), evaluate() and draw() may fail (`?`); the
\* ended task drops its senders
MainKey ==
    /\ mainPc = "select"
    /\ \E outcome \in {"continue", "ok", "err"} :
          IF outcome = "continue"
          THEN UNCHANGED <<mainPc, debRxClosed>>
          ELSE mainPc' = outcome /\ debRxClosed' = TRUE
    /\ UNCHANGED <<debImpl, debounce_rx, last_query, debPc, text, last_tx, debTxClosed,
                   debAborted, debOffered, debReceived, debMark, debEmitted, orchPc,
                   raw_mode, cursor_hidden, orchRet, resize, procPc, orchAborted,
                   nonOrchVars>>

\* main_task: the stream has ended, the else arm breaks
MainElse ==
    /\ mainPc = "select"
    /\ mainPc' = "ok"
    /\ debRxClosed' = TRUE
    /\ UNCHANGED <<debImpl, debounce_rx, last_query, debPc, text, last_tx, debTxClosed,
                   debAborted, debOffered, debReceived, debMark, debEmitted, orchPc,
                   raw_mode, cursor_hidden, orchRet, resize, procPc, orchAborted,
                   nonOrchVars>>

\* processor_task: `Some(area) = last_resize_rx.recv()`, the redraw (`?`) and
\* write_on_resize; on an error the task ends and drops its receivers
ProcResize ==
    /\ procPc = "select"
    /\ "processor_task" \notin orchAborted
    /\ last_tx # <<>>
    /\ \/ last_tx' = Tail(last_tx) /\ UNCHANGED <<procPc, debTxClosed>>
       \/ last_tx' = <<>> /\ procPc' = "err" /\ debTxClosed' = TRUE
    /\ UNCHANGED <<debImpl, debounce_rx, debRxClosed, last_query, debPc, text,
                   debAborted, debOffered, debReceived, debMark, debEmitted, orchPc,
                   raw_mode, cursor_hidden, orchRet, mainPc, resize, orchAborted,
                   nonOrchVars>>

\* the aborted processor_task is dropped, and its receivers with it
ProcCancel ==
    /\ procPc = "select"
    /\ "processor_task" \in orchAborted
    /\ procPc' = "cancelled"
    /\ debTxClosed' = TRUE
    /\ last_tx' = <<>>
    /\ UNCHANGED <<debImpl, debounce_rx, debRxClosed, last_query, debPc, text,
                   debAborted, debOffered, debReceived, debMark, debEmitted, orchPc,
                   raw_mode, cursor_hidden, orchRet, mainPc, resize, orchAborted,
                   nonOrchVars>>

\* the aborted debouncer is dropped
DebCancel ==
    /\ debAborted
    /\ debPc \in {"select", "send"}
    /\ debPc' = "cancelled"
    /\ text' = None
    /\ UNCHANGED <<debImpl, debounce_rx, debRxClosed, last_query, last_tx, debTxClosed,
                   debAborted, debOffered, debReceived, debMark, debEmitted,
                   orchVars, nonOrchVars>>

OrchestratorInit ==
    /\ WizardIdle
    /\ SessionIdle
    /\ CoordinatorIdle
    /\ OrchestratorIdle
    /\ EvaluatorIdle
    /\ LoadingIdle
    /\ SyncIdle
    /\ SnapshotIdle
    /\ GroupIdle
    /\ RunInit
    /\ impl = "TimeBasedOperator"

OrchestratorNext ==
    \/ RunEnableRawMode
    \/ RunHideCursor
    \/ RunInitTerminal
    \/ RunSpawn
    \/ RunLoading
    \/ RunJoinMain
    \/ RunAbort
    \/ RunShowCursor
    \/ RunDisableRawMode
    \/ MainResize
    \/ MainSendResize
    \/ MainKey
    \/ MainElse
    \/ ProcResize
    \/ ProcCancel
    \/ DebRecv
    \/ DebRecvNone
    \/ DebDelay
    \/ DebSend
    \/ DebCancel

SpecOrchestrator == OrchestratorInit /\ [][OrchestratorNext]_vars

\* C30 as claimed: whenever run has returned (with Ok or with an error) after raw
\* mode was enabled, the cursor has been shown again and raw mode disabled.
C30_Claimed_TerminalRestoredOnEveryReturn ==
    orchRet # None => (~raw_mode /\ ~cursor_hidden)

(***************************************************************************)
(* Claims about the spinner frames.                                        *)
(***************************************************************************)
\* the frame before index i in the cyclic sequence
PrevFrame(i) == (i + LoadingFrames - 1) % LoadingFrames

\* C33: the spinner's frame index is always in 0..9; a spinner pane is made of
\* the frame at the current index, and making it advances the index by one modulo
\* 10; the index changes in no other way (it is not reset when a task is
\* superseded), and each pane made is sent at most once: the panes published show
\* consecutive frames, wrapping from the last to the first.
C33_SpinnerFramesConsecutive ==
    /\ [](frame_index \in 0..(LoadingFrames - 1))
    /\ [](loading_pane # None =>
            loading_pane = Some(<<"frame", PrevFrame(frame_index)>>))
    /\ [][frame_index' # frame_index =>
            /\ loading_pane = None
            /\ loading_pane' = Some(<<"frame", frame_index>>)
            /\ frame_index' = (frame_index + 1) % LoadingFrames]_vars
    /\ [][SpinnerFrameSent =>
            /\ loading_pane' = None
            /\ frame_index' = frame_index]_vars

\* the spinner has wrapped from the last frame to the first while the second
\* task, which superseded the first, is being processed
C33_Witness ==
    /\ Len(tasks) = 2
    /\ tasks[1].aborted
    /\ tasks[2].pc = "process"
    /\ frame_index = 0
    /\ loading_pane = Some(<<"frame", LoadingFrames - 1>>)

\* the same for the spinner of an Evaluator
C33_EvaluatorFramesConsecutive ==
    /\ [](evFrameIndex \in 0..(LoadingFrames - 1))
    /\ [](evLoadingPane # None =>
            evLoadingPane = Some(<<"frame", PrevFrame(evFrameIndex)>>))
    /\ [][evFrameIndex' # evFrameIndex =>
            /\ evLoadingPane = None
            /\ evLoadingPane' = Some(<<"frame", evFrameIndex>>)
            /\ evFrameIndex' = (evFrameIndex + 1) % LoadingFrames]_vars

(***************************************************************************)
(* Claims about an aborted current_mut.                                    *)
(***************************************************************************)
\* C34: a current_mut call that is aborted while it awaits f leaves current and
\* previous exactly as they were (it took the lock only to clone, and is in no
\* way recorded); so whatever is called afterwards acts on the completed calls
\* alone: between calls (current, previous) is what the completed updates and
\* rollbacks give in lock order, and a rollback reverts the last completed update
\* or returns false when there is none to revert.
C34_AbortedModifyLeavesNoTrace ==
    /\ [][\A h \in Holders :
            (hpc[h] = "current_mut:f" /\ hpc'[h] = "aborted") =>
                /\ current' = current
                /\ previous' = previous
                /\ log' = log
                /\ lock' = lock]_vars
    /\ []((Quiet /\ \E h \in Holders : hpc[h] = "aborted") =>
            /\ [current |-> current, previous |-> previous] = Replay(Constructed, log)
            /\ \A i \in 1..Len(log) :
                 log[i].op = "rollback" =>
                   log[i].x = Some(Replay(Constructed, SubSeq(log, 1, i - 1)).previous
                                   # None))

\* h1 cloned the state an update had set and was aborted while awaiting f; the
\* rollback of h2 has reverted that update, not the aborted call
C34_Witness ==
    /\ hpc["h1"] = "aborted"
    /\ clonedAt["h1"] = 1
    /\ hpc["h2"] = "idle"
    /\ Len(log) = 2
    /\ log[1].op = "update" /\ log[2].op = "rollback"
    /\ log[2].x = Some(TRUE)
    /\ cloned["h1"] = log[1].x
    /\ current = log[1].was
    /\ previous = None

(***************************************************************************)
(* Claims about the Evaluator's recorded state at rest.                    *)
(***************************************************************************)
\* C35 (as claimed): the recorded state is never left at ProcessQuery or
\* ProcessEvents with no live task: whenever it is not Idle, some process task
\* is still there to set it back (spawned or running, not yet finished, failed
\* or dropped), so that once inputs stop the state settles at Idle.
C35_Claimed_NeverBusyWithoutTask ==
    evState # "Idle" => \E t \in 1..Len(evTasks) : evTasks[t].pc \notin Final

(***************************************************************************)
(* Claims about the debouncer's outputs as a subsequence of its inputs.    *)
(***************************************************************************)
\* s is a subsequence of t: its elements appear in t in the same order
RECURSIVE IsSubseq(_, _)
IsSubseq(s, t) ==
    IF s = <<>> THEN TRUE
    ELSE IF t = <<>> THEN FALSE
    ELSE IF Head(s) = Head(t) THEN IsSubseq(Tail(s), Tail(t))
    ELSE IsSubseq(s, Tail(t))

\* what would be sent for each value received so far
OutOfReceived == [i \in 1..Len(debReceived) |-> Out(debReceived[i])]

\* an emission sends the value received last, taken by the flush that precedes it
DebEmitsMostRecent ==
    [][debEmitted' # debEmitted =>
         /\ debPc = "send"
         /\ debMark = Len(debReceived)
         /\ text = Some(debReceived[Len(debReceived)])
         /\ debEmitted' = Append(debEmitted, Out(text[1]))
         /\ debPc' # "send"]_vars

\* a flush takes a value received after the one the flush before it took, and
\* only a flush starts a send: the emissions follow the order of reception and
\* no received value is emitted twice
DebFlushesAdvance ==
    /\ [][debMark' # debMark =>
            /\ debMark' > debMark
            /\ debMark' = Len(debReceived)
            /\ debPc = "select" /\ debPc' = "send"]_vars
    /\ [][(debPc # "send" /\ debPc' = "send") => debMark' > debMark]_vars
    /\ [](Len(debEmitted) <= debMark /\ IsSubseq(debEmitted, OutOfReceived))

\* a retained value goes away only when a newer value replaces it or when a
\* flush takes it; once the input is closed and the loop has ended, what is
\* retained stays there and nothing is emitted
DebRetainedUntilReplacedOrTaken ==
    /\ [][(last_query # None /\ last_query' # last_query) =>
            \/ /\ debReceived' # debReceived
               /\ last_query' = Some(debReceived'[Len(debReceived')])
            \/ /\ debReceived' = debReceived
               /\ text' = last_query /\ last_query' = None]_vars
    /\ [][debPc = "done" => UNCHANGED <<debPc, last_query, debEmitted>>]_vars

\* C36 (as claimed): the outputs are an order-preserving subsequence of the
\* inputs without duplication, each output is the value received last at the
\* moment of emission, and a received value is skipped only because a newer one
\* replaced it or because the input closed while it was retained: so every value
\* a flush has taken is emitted when its send ends.
C36_Claimed_SkippedOnlyByNewerOrClose ==
    /\ DebEmitsMostRecent
    /\ DebFlushesAdvance
    /\ DebRetainedUntilReplacedOrTaken
    /\ [][(debPc = "send" /\ debPc' # "send") => debEmitted' # debEmitted]_vars

\* C36 (amended): as above, except that a value a flush has taken is also
\* skipped when the output channel is closed at its send or when the debouncer
\* task is aborted during the send; no other send ends without an emission.
C36_SkippedAlsoOnClosedOutput ==
    /\ DebEmitsMostRecent
    /\ DebFlushesAdvance
    /\ DebRetainedUntilReplacedOrTaken
    /\ [][(debPc = "send" /\ debPc' # "send") =>
            (debEmitted' # debEmitted \/ debTxClosed \/ debAborted)]_vars

\* two values were received in one window and the second was emitted; a third
\* was received and taken by the next flush, its send found the output closed:
\* it is the newest value, the input is open, and it is not emitted
C36_Witness ==
    /\ debImpl = "spawn_debouncer"
    /\ Len(debReceived) = 3
    /\ debMark = 3
    /\ debEmitted = << Out(debReceived[2]) >>
    /\ debReceived[3] # debReceived[2]
    /\ debTxClosed
    /\ ~debRxClosed
    /\ debPc = "select"
    /\ last_query = None

(***************************************************************************)
(* SpecCoordinator: DisplayCoordinator::run                                *)
(* (src/src/display_coordinator.rs:53-134).                                *)
(*                                                                         *)
(*   loop { select! {                                                      *)
(*     loading_activation_receiver.recv():                                 *)
(*       Some((version, index)) => if version > global {                   *)
(*           global = version; actives[index] = true }                     *)
(*       None => break,                                                    *)
(*     indexed_pane_receiver.recv():                                       *)
(*       Some((version, index, pane)) => if version >= global {            *)
(*           actives[index] = false; panes[index] = pane;                  *)
(*           terminal.draw(&panes)?; }                                     *)
(*       None => break,                                                    *)
(*     delay: for every active index, in order:                            *)
(*           frame = frames[frame_indexes[index] % len]; terminal::size()?;*)
(*           panes[index] = Pane(frame); terminal.draw(&panes)?;           *)
(*           frame_indexes[index] = (frame_index + 1) % len                *)
(*   } }                                                                   *)
(*                                                                         *)
(* The senders are those of the renderer in                                *)
(* src/_examples/lazyutil/component.rs:62-79: sync(version) sends the      *)
(* activation (version, 1), then the pane (version, 0, ..) with try_send,  *)
(* and spawns a task that later try_sends the pane (version, 1, ..); the   *)
(* versions of successive sync calls increase, the spawned tasks finish in *)
(* any order. tokio's select! takes any arm that is ready.                 *)
(***************************************************************************)
MaxVersions == 2

\* the pane a sender made for a slot at a version
IndexedPane(v, index) == <<"pane", v, index>>

\* the pane of a spinner frame
FramePane(k) == <<"frame", k>>

\* sync(version): the activation is sent (it waits for room), the pane of slot
\* 0 is try_sent (a full channel makes sync return the error, the lazy task is
\* then not spawned)
DcSync ==
    /\ ~dcSendersDropped
    /\ dcSyncs < MaxVersions
    /\ Len(loading_activation_rx) < ChannelDepth
    /\ dcSyncs' = dcSyncs + 1
    /\ loading_activation_rx' = Append(loading_activation_rx, <<dcSyncs + 1, 1>>)
    /\ IF Len(indexed_pane_rx) < ChannelDepth
       THEN /\ indexed_pane_rx' =
                  Append(indexed_pane_rx, <<dcSyncs + 1, 0, IndexedPane(dcSyncs + 1, 0)>>)
            /\ dcLazy' = dcLazy \cup {dcSyncs + 1}
       ELSE UNCHANGED <<indexed_pane_rx, dcLazy>>
    /\ UNCHANGED <<dcSendersDropped, dcPc, version, panes, actives, frame_indexes,
                   dcDrawn, nonCoordVars>>

\* the task sync(v) spawned try_sends the pane of slot 1 (dropped when the
\* channel is full)
DcLazySend(v) ==
    /\ v \in dcLazy
    /\ dcLazy' = dcLazy \ {v}
    /\ indexed_pane_rx' =
          IF Len(indexed_pane_rx) < ChannelDepth
          THEN Append(indexed_pane_rx, <<v, 1, IndexedPane(v, 1)>>)
          ELSE indexed_pane_rx
    /\ UNCHANGED <<loading_activation_rx, dcSendersDropped, dcPc, version, panes,
                   actives, frame_indexes, dcDrawn, dcSyncs, nonCoordVars>>

\* the renderer and its tasks are gone: every sender is dropped
DcDropSenders ==
    /\ ~dcSendersDropped
    /\ dcLazy = {}
    /\ dcSendersDropped' = TRUE
    /\ UNCHANGED <<loading_activation_rx, indexed_pane_rx, dcPc, version, panes,
                   actives, frame_indexes, dcDrawn, dcSyncs, dcLazy, nonCoordVars>>

\* the activation arm on Some((version, index))
DcActivation ==
    /\ dcPc = "select"
    /\ loading_activation_rx # <<>>
    /\ loading_activation_rx' = Tail(loading_activation_rx)
    /\ LET v == Head(loading_activation_rx)[1]
           index == Head(loading_activation_rx)[2]
       IN IF v > version
          THEN /\ version' = v
               /\ actives' = [actives EXCEPT ![index] = TRUE]
          ELSE UNCHANGED <<version, actives>>
    /\ UNCHANGED <<indexed_pane_rx, dcSendersDropped, dcPc, panes, frame_indexes,
                   dcDrawn, dcSyncs, dcLazy, nonCoordVars>>

\* either recv() returns None: `break`, run returns Ok(())
DcRecvNone ==
    /\ dcPc = "select"
    /\ dcSendersDropped
    /\ loading_activation_rx = <<>> \/ indexed_pane_rx = <<>>
    /\ dcPc' = "done"
    /\ UNCHANGED <<loading_activation_rx, indexed_pane_rx, dcSendersDropped, version,
                   panes, actives, frame_indexes, dcDrawn, dcSyncs, dcLazy,
                   nonCoordVars>>

\* the pane arm on Some((version, index, pane)); a failed draw ends run (`?`)
DcPane(drawOk) ==
    /\ dcPc = "select"
    /\ indexed_pane_rx # <<>>
    /\ indexed_pane_rx' = Tail(indexed_pane_rx)
    /\ LET v == Head(indexed_pane_rx)[1]
           index == Head(indexed_pane_rx)[2]
           p == Head(indexed_pane_rx)[3]
       IN IF v >= version
          THEN /\ actives' = [actives EXCEPT ![index] = FALSE]
               /\ panes' = [panes EXCEPT ![index] = p]
               /\ IF drawOk
                  THEN dcDrawn' = Some(panes') /\ UNCHANGED dcPc
                  ELSE dcPc' = "err" /\ UNCHANGED dcDrawn
          ELSE /\ drawOk
               /\ UNCHANGED <<actives, panes, dcDrawn, dcPc>>
    /\ UNCHANGED <<loading_activation_rx, dcSendersDropped, version, frame_indexes,
                   dcSyncs, dcLazy, nonCoordVars>>

\* the spinner step of one active slot; outcome "size_err": terminal::size()
\* fails, nothing is written; "draw_err": the pane is written, the draw fails
\* and the frame index stays; the error ends this slot's step only
SpinSlot(st, index, outcome) ==
    IF ~actives[index] \/ outcome = "size_err" THEN st
    ELSE LET written == [st.panes EXCEPT
                           ![index] = FramePane(st.frame_indexes[index] % LoadingFrames)]
         IN IF outcome = "draw_err"
            THEN [st EXCEPT !.panes = written]
            ELSE [panes |-> written,
                  drawn |-> Some(written),
                  frame_indexes |->
                      [st.frame_indexes EXCEPT
                          ![index] = (st.frame_indexes[index] + 1) % LoadingFrames]]

\* the steps of the slots 0..index, in the order join_all polls them
RECURSIVE SpinSlots(_, _, _)
SpinSlots(st, index, outcomes) ==
    IF index < 0 THEN st
    ELSE SpinSlot(SpinSlots(st, index - 1, outcomes), index, outcomes[index])

\* the delay arm: nothing was received for delay_duration; every active slot
\* gets its next frame
DcDelay ==
    /\ dcPc = "select"
    /\ \E i \in Slots : actives[i]
    /\ \E outcomes \in [Slots -> {"ok", "size_err", "draw_err"}] :
          /\ \A i \in Slots : ~actives[i] => outcomes[i] = "ok"
          /\ LET st == SpinSlots([panes |-> panes, drawn |-> dcDrawn,
                                  frame_indexes |-> frame_indexes],
                                 1, outcomes)
             IN /\ panes' = st.panes
                /\ dcDrawn' = st.drawn
                /\ frame_indexes' = st.frame_indexes
    /\ UNCHANGED <<loading_activation_rx, indexed_pane_rx, dcSendersDropped, dcPc,
                   version, actives, dcSyncs, dcLazy, nonCoordVars>>

CoordinatorInit ==
    /\ WizardIdle
    /\ SessionIdle
    /\ CoordinatorIdle
    /\ SnapshotIdle
    /\ SyncIdle
    /\ LoadingIdle
    /\ EvaluatorIdle
    /\ OrchestratorIdle
    /\ GroupIdle
    /\ RunInit
    /\ impl = "TimeBasedOperator"

CoordinatorNext ==
    \/ DcSync
    \/ \E v \in 1..MaxVersions : DcLazySend(v)
    \/ DcDropSenders
    \/ DcActivation
    \/ DcRecvNone
    \/ \E drawOk \in BOOLEAN : DcPane(drawOk)
    \/ DcDelay

SpecCoordinator == CoordinatorInit /\ [][CoordinatorNext]_vars

(***************************************************************************)
(* Claims about the DisplayCoordinator.                                    *)
(***************************************************************************)
\* the step in which run takes a triplet off the pane channel
PaneArrives == indexed_pane_rx # <<>> /\ indexed_pane_rx' = Tail(indexed_pane_rx)

\* the version of the pane a slot shows (a pane the senders made)
IsIndexedPane(p) == p[1] = "pane"

\* the global version only ever increases, and changes only when an activation
\* with a strictly greater version is received
VersionOnlyIncreases ==
    [][version' # version =>
         /\ loading_activation_rx # <<>>
         /\ loading_activation_rx' = Tail(loading_activation_rx)
         /\ version' = Head(loading_activation_rx)[1]
         /\ version' > version]_vars

\* a pane message whose version is lower than the global version is dropped: no
\* slot changes and nothing is drawn
StalePaneDropped ==
    [][(PaneArrives /\ Head(indexed_pane_rx)[1] < version) =>
         /\ panes' = panes
         /\ dcDrawn' = dcDrawn
         /\ actives' = actives
         /\ dcPc' = dcPc]_vars

\* C39 (as claimed): the version gate: the global version only increases, a
\* pane message older than the global version is dropped, and a slot is never
\* overwritten by a pane whose version is lower than the version of the pane
\* the slot shows.
C39_Claimed_SlotVersionsNeverDecrease ==
    /\ VersionOnlyIncreases
    /\ StalePaneDropped
    /\ [][\A i \in Slots :
            (IsIndexedPane(panes[i]) /\ IsIndexedPane(panes'[i])) =>
                panes'[i][2] >= panes[i][2]]_vars

\* C40 (as claimed): once the pane of the latest version has been accepted for
\* a slot, the slot is inactive and no spinner frame overwrites that pane until
\* an activation with a newer version is received, in whichever order the
\* activation and the pane of that version are received.
C40_Claimed_LatestPaneNotOverwrittenBySpinner ==
    /\ [](\A i \in Slots :
            (IsIndexedPane(panes[i]) /\ panes[i][2] >= version) => ~actives[i])
    /\ [][\A i \in Slots :
            (IsIndexedPane(panes[i]) /\ panes'[i][1] = "frame") =>
                version > panes[i][2]]_vars

(***************************************************************************)
(* SpecSession: the tasks run spawns (src/src/lib.rs:103-209) and what     *)
(* they wait for: main_task, the query debouncer, the resize debouncer and *)
(* processor_task, the four channels of capacity 1 between them and the    *)
(* RwLock of the editor.                                                   *)
(*                                                                         *)
(*   main_task: Resize -> debounce_resize_tx.send(..).await?               *)
(*              other  -> editor = shared_editor.write().await;            *)
(*                        editor.evaluate(&event)?:                        *)
(*                          None -> continue; Quit -> break;               *)
(*                          ChangeText ->                                  *)
(*                            debounce_query_tx.send(editor.text()).await? *)
(*                          MoveCursor -> ();                              *)
(*                        (guard dropped) panes[Editor] = pane; draw       *)
(*   processor_task: wiz.loading(item).await, then loop select             *)
(*              Some(query) = last_query_rx.recv() -> wiz.evaluate(..)     *)
(*              Some(area) = last_resize_rx.recv() ->                      *)
(*                        shared_editor.read().await (create_pane);        *)
(*                        panes[Editor] = pane; draw;                      *)
(*                        shared_editor.read().await (text);               *)
(*                        wiz.write_on_resize(..)                          *)
(*                                                                         *)
(* The query debouncer is the debouncer of SpecDebouncer (debounce_rx is   *)
(* debounce_query_rx, last_tx is last_query_tx); the resize debouncer is a *)
(* second instance of spawn_debouncer. The session runs until main_task    *)
(* ends.                                                                   *)
(***************************************************************************)
MaxSessionEvents == 5

\* every variable but those of the session and of its query debouncer
nonSessDebVars == <<groupVars, runVars, snapVars, syncVars, loadVars, evalVars,
                    orchVars, coordVars, wizVars>>

\* the area a Resize event carries
SesArea == <<80, 24>>

\* editor.text() after the k-th event
SesText(k) == <<"text", k>>

\* main_task takes Event::Resize off the stream
SesMainResize ==
    /\ sesMainPc = "select"
    /\ sesEvents < MaxSessionEvents
    /\ sesEvents' = sesEvents + 1
    /\ sesMainPc' = "send_resize"
    /\ UNCHANGED <<debVars, sesProcPc, editor_lock, debounce_resize_rx, rszLastQuery,
                   rszPc, rszText, last_resize_rx, nonSessDebVars>>

\* `debounce_resize_tx.send((width, height)).await?` once there is room
SesMainSendResize ==
    /\ sesMainPc = "send_resize"
    /\ Len(debounce_resize_rx) < ChannelDepth
    /\ debounce_resize_rx' = Append(debounce_resize_rx, SesArea)
    /\ sesMainPc' = "select"
    /\ UNCHANGED <<debVars, sesProcPc, editor_lock, rszLastQuery, rszPc, rszText,
                   last_resize_rx, sesEvents, nonSessDebVars>>

\* main_task takes another event off the stream; it goes on to
\* `shared_editor.write().await`
SesMainKey ==
    /\ sesMainPc = "select"
    /\ sesEvents < MaxSessionEvents
    /\ sesEvents' = sesEvents + 1
    /\ sesMainPc' = "write"
    /\ UNCHANGED <<debVars, sesProcPc, editor_lock, debounce_resize_rx, rszLastQuery,
                   rszPc, rszText, last_resize_rx, nonSessDebVars>>

\* the write guard is granted, editor.evaluate(&event) returns the action;
\* with ChangeText the send begins while the guard is held, otherwise the guard
\* is dropped at the end of the block
SesMainEvaluate(action) ==
    /\ sesMainPc = "write"
    /\ editor_lock = "free"
    /\ CASE action = "None" -> sesMainPc' = "select" /\ UNCHANGED editor_lock
         [] action = "Quit" -> sesMainPc' = "done" /\ UNCHANGED editor_lock
         [] action = "MoveCursor" -> sesMainPc' = "draw" /\ UNCHANGED editor_lock
         [] action = "ChangeText" -> sesMainPc' = "send_query" /\ editor_lock' = "main"
    /\ UNCHANGED <<debVars, sesProcPc, debounce_resize_rx, rszLastQuery, rszPc, rszText,
                   last_resize_rx, sesEvents, nonSessDebVars>>

\* `debounce_query_tx.send(editor.text()).await?` once there is room; the
\* pane is created and the write guard dropped
SesMainSendQuery ==
    /\ sesMainPc = "send_query"
    /\ Len(debounce_rx) < ChannelDepth
    /\ debounce_rx' = Append(debounce_rx, SesText(sesEvents))
    /\ debOffered' = debOffered + 1
    /\ editor_lock' = "free"
    /\ sesMainPc' = "draw"
    /\ UNCHANGED <<debImpl, debRxClosed, last_query, debPc, text, last_tx, debTxClosed,
                   debAborted, debReceived, debMark, debEmitted, sesProcPc,
                   debounce_resize_rx, rszLastQuery, rszPc, rszText, last_resize_rx,
                   sesEvents, nonSessDebVars>>

\* main_task locks the panes and the terminal, writes panes[Editor] and draws
SesMainDraw ==
    /\ sesMainPc = "draw"
    /\ sesMainPc' = "select"
    /\ UNCHANGED <<debVars, sesProcPc, editor_lock, debounce_resize_rx, rszLastQuery,
                   rszPc, rszText, last_resize_rx, sesEvents, nonSessDebVars>>

\* the resize debouncer receives an area: `last_query = Some(query)`
SesResizeRecv ==
    /\ rszPc = "select"
    /\ debounce_resize_rx # <<>>
    /\ rszLastQuery' = Some(Head(debounce_resize_rx))
    /\ debounce_resize_rx' = Tail(debounce_resize_rx)
    /\ UNCHANGED <<debVars, sesMainPc, sesProcPc, editor_lock, rszPc, rszText,
                   last_resize_rx, sesEvents, nonSessDebVars>>

\* the resize debouncer's delay elapses with an area retained
SesResizeDelay ==
    /\ rszPc = "select"
    /\ rszLastQuery # None
    /\ rszText' = rszLastQuery
    /\ rszLastQuery' = None
    /\ rszPc' = "send"
    /\ UNCHANGED <<debVars, sesMainPc, sesProcPc, editor_lock, debounce_resize_rx,
                   last_resize_rx, sesEvents, nonSessDebVars>>

\* the resize debouncer's `last_tx.send(text).await` once there is room
SesResizeSend ==
    /\ rszPc = "send"
    /\ Len(last_resize_rx) < ChannelDepth
    /\ last_resize_rx' = Append(last_resize_rx, rszText[1])
    /\ rszText' = None
    /\ rszPc' = "select"
    /\ UNCHANGED <<debVars, sesMainPc, sesProcPc, editor_lock, debounce_resize_rx,
                   rszLastQuery, sesEvents, nonSessDebVars>>

\* wiz.loading(item) and the first draw are done: processor_task is spawned
SesProcLoaded ==
    /\ sesProcPc = "loading"
    /\ sesProcPc' = "select"
    /\ UNCHANGED <<debVars, sesMainPc, editor_lock, debounce_resize_rx, rszLastQuery,
                   rszPc, rszText, last_resize_rx, sesEvents, nonSessDebVars>>

\* processor_task: the query arm, wiz.evaluate(..) spawns the process task
SesProcQuery ==
    /\ sesProcPc = "select"
    /\ last_tx # <<>>
    /\ last_tx' = Tail(last_tx)
    /\ UNCHANGED <<debImpl, debounce_rx, debRxClosed, last_query, debPc, text, debTxClosed,
                   debAborted, debOffered, debReceived, debMark, debEmitted, sessVars,
                   nonSessDebVars>>

\* processor_task: the resize arm; it goes on to `shared_editor.read().await`
SesProcResize ==
    /\ sesProcPc = "select"
    /\ last_resize_rx # <<>>
    /\ last_resize_rx' = Tail(last_resize_rx)
    /\ sesProcPc' = "read_pane"
    /\ UNCHANGED <<debVars, sesMainPc, editor_lock, debounce_resize_rx, rszLastQuery,
                   rszPc, rszText, sesEvents, nonSessDebVars>>

\* the read guard is granted: editor.create_pane(..), the guard is dropped
SesProcReadPane ==
    /\ sesProcPc = "read_pane"
    /\ editor_lock = "free"
    /\ sesProcPc' = "draw"
    /\ UNCHANGED <<debVars, sesMainPc, editor_lock, debounce_resize_rx, rszLastQuery,
                   rszPc, rszText, last_resize_rx, sesEvents, nonSessDebVars>>

\* processor_task locks the panes and the terminal, writes panes[Editor], draws
SesProcDraw ==
    /\ sesProcPc = "draw"
    /\ sesProcPc' = "read_text"
    /\ UNCHANGED <<debVars, sesMainPc, editor_lock, debounce_resize_rx, rszLastQuery,
                   rszPc, rszText, last_resize_rx, sesEvents, nonSessDebVars>>

\* the second read guard is granted: editor.text(); wiz.write_on_resize(..)
SesProcReadText ==
    /\ sesProcPc = "read_text"
    /\ editor_lock = "free"
    /\ sesProcPc' = "select"
    /\ UNCHANGED <<debVars, sesMainPc, editor_lock, debounce_resize_rx, rszLastQuery,
                   rszPc, rszText, last_resize_rx, sesEvents, nonSessDebVars>>

SessionInit ==
    /\ WizardIdle
    /\ SessionIdle
    /\ CoordinatorIdle
    /\ SnapshotIdle
    /\ SyncIdle
    /\ LoadingIdle
    /\ EvaluatorIdle
    /\ OrchestratorIdle
    /\ GroupIdle
    /\ RunInit
    /\ impl = "TimeBasedOperator"

SessionNext ==
    \/ SesMainResize
    \/ SesMainSendResize
    \/ SesMainKey
    \/ \E action \in {"None", "Quit", "MoveCursor", "ChangeText"} : SesMainEvaluate(action)
    \/ SesMainSendQuery
    \/ SesMainDraw
    \/ DebRecv
    \/ DebDelay
    \/ DebSend
    \/ SesResizeRecv
    \/ SesResizeDelay
    \/ SesResizeSend
    \/ SesProcLoaded
    \/ SesProcQuery
    \/ SesProcResize
    \/ SesProcReadPane
    \/ SesProcDraw
    \/ SesProcReadText

SpecSession == SessionInit /\ [][SessionNext]_vars

\* main_task waits for room in debounce_query while it holds the write guard
SesMainBlocked ==
    sesMainPc = "send_query" /\ editor_lock = "main" /\ Len(debounce_rx) = ChannelDepth

\* the query debouncer waits for room in last_query
SesQueryDebouncerBlocked == debPc = "send" /\ Len(last_tx) = ChannelDepth

\* processor_task waits for a read guard of the editor
SesProcessorWaitsRead == sesProcPc \in {"read_pane", "read_text"} /\ editor_lock = "main"

\* C37 (as claimed): the session is deadlock-free; in particular main_task
\* never waits on debounce_query_tx.send with the editor's write guard held
\* while the query debouncer waits on its own send and processor_task waits for
\* the editor's read guard in its resize branch, each for the next.
C37_Claimed_NoSendUnderWriteLockCycle ==
    ~(SesMainBlocked /\ SesQueryDebouncerBlocked /\ SesProcessorWaitsRead)

\* once the three tasks wait for each other, they do so for ever
SesCycleIsPermanent ==
    []((SesMainBlocked /\ SesQueryDebouncerBlocked /\ SesProcessorWaitsRead) =>
         [](SesMainBlocked /\ SesQueryDebouncerBlocked /\ SesProcessorWaitsRead))

(***************************************************************************)
(* SpecWizard: run of src/src/lib.rs from the spawn of main_task to its    *)
(* return, with the Wizard and the Spinner of src/src/wizard.rs.           *)
(*                                                                         *)
(*   spin task: loop { interval.tick().await;                              *)
(*       { lock ctx; if state == Idle { continue } }                       *)
(*       frame_index = (frame_index + 1) % LOADING_FRAMES.len();           *)
(*       { lock panes; lock terminal;                                      *)
(*         panes[Data] = LOADING_FRAMES[frame_index]; draw } }             *)
(*   process task: { lock ctx; state = ProcessQuery }                      *)
(*       result = visualizer.create_pane_from(area, query).await;          *)
(*       { lock panes; lock ctx; lock terminal;                            *)
(*         panes[Data] = result; state = Idle; draw }                      *)
(*   evaluate / write_on_resize: { lock ctx; abort current_task.take() }   *)
(*       process_task = spawn_process_task(..);                            *)
(*       { lock ctx; current_task = Some(process_task) }                   *)
(*   run: wiz.loading(item).await?; panes[Data] = init pane; draw?;        *)
(*       spawn processor_task; main_task.await??;                          *)
(*       spinning.abort(); query_debouncer.abort();                        *)
(*       resize_debouncer.abort(); processor_task.abort(); ..; Ok(())      *)
(*                                                                         *)
(* The debounced queries and areas are given to processor_task directly.   *)
(* An aborted task is dropped where it is suspended; a task that is being  *)
(* polled when abort() is called runs on to its next await.                *)
(***************************************************************************)
MaxWizInputs == 2

\* the pane of the n-th loading frame
WizFramePane(n) == <<"frame", n>>

\* the pane the visualizer makes for the input of task t
WizResultPane(t) == <<"result", t>>

\* terminal.draw(&*panes) with the panes lock held
WizDraw(ps) == Some(ps)

\* `if let Some(task) = current_task.take() { task.abort(); }`
WizAbortCurrent ==
    IF ctx_current_task = None
    THEN wizTasks
    ELSE [wizTasks EXCEPT ![ctx_current_task[1]].aborted = TRUE]

\* the handles of the tasks run spawns in this model
WizHandles == {"spinning", "processor_task"}

\* wiz.loading: abort the current task, state = Loading, L::load(item) begins
WizRunLoading ==
    /\ wizRunPc = "loading"
    /\ wizTasks' = WizAbortCurrent
    /\ ctx_current_task' = None
    /\ ctx_state' = "Loading"
    /\ wizRunPc' = "loaded"
    /\ UNCHANGED <<wizRet, wizMainPc, wizProcPc, process_task, shared_panes, wizDrawn,
                   wizSpinPc, wizFrameIndex, wizAborted, wizInputs, nonWizVars>>

\* L::load(item) returns: state = Idle; an Err is returned by run (`?`)
WizRunLoaded(ok) ==
    /\ wizRunPc = "loaded"
    /\ ctx_state' = "Idle"
    /\ IF ok
       THEN wizRunPc' = "init_pane" /\ UNCHANGED wizRet
       ELSE wizRunPc' = "returned" /\ wizRet' = Some("Err")
    /\ UNCHANGED <<wizMainPc, wizProcPc, ctx_current_task, wizTasks, process_task,
                   shared_panes, wizDrawn, wizSpinPc, wizFrameIndex, wizAborted, wizInputs,
                   nonWizVars>>

\* the initial pane is written to panes[Data] and drawn (an Err is returned by
\* run), processor_task is spawned
WizRunInitPane(ok) ==
    /\ wizRunPc = "init_pane"
    /\ shared_panes' = [shared_panes EXCEPT !["Data"] = <<"init_pane">>]
    /\ IF ok
       THEN /\ wizDrawn' = WizDraw(shared_panes')
            /\ wizProcPc' = "select"
            /\ wizRunPc' = "join"
            /\ UNCHANGED wizRet
       ELSE /\ wizRunPc' = "returned"
            /\ wizRet' = Some("Err")
            /\ UNCHANGED <<wizDrawn, wizProcPc>>
    /\ UNCHANGED <<wizMainPc, ctx_state, ctx_current_task, wizTasks, process_task,
                   wizSpinPc, wizFrameIndex, wizAborted, wizInputs, nonWizVars>>

\* `main_task.await??`: an error of main_task is returned at once; otherwise
\* the handles are aborted, the terminal is restored (either call may fail)
\* and run returns
WizRunJoin ==
    /\ wizRunPc = "join"
    /\ wizMainPc \in {"ok", "err"}
    /\ wizRunPc' = "returned"
    /\ IF wizMainPc = "err"
       THEN wizRet' = Some("Err") /\ UNCHANGED wizAborted
       ELSE /\ wizAborted' = WizHandles
            /\ wizRet' \in {Some("Ok"), Some("Err")}
    /\ UNCHANGED <<wizMainPc, wizProcPc, ctx_state, ctx_current_task, wizTasks,
                   process_task, shared_panes, wizDrawn, wizSpinPc, wizFrameIndex,
                   wizInputs, nonWizVars>>

\* main_task handles an event that changes the editor: panes[Editor] is
\* written and drawn
WizMainKey ==
    /\ wizMainPc = "select"
    /\ shared_panes' = [shared_panes EXCEPT !["Editor"] = <<"editor", "main_task">>]
    /\ wizDrawn' = WizDraw(shared_panes')
    /\ UNCHANGED <<wizRunPc, wizRet, wizMainPc, wizProcPc, ctx_state, ctx_current_task,
                   wizTasks, process_task, wizSpinPc, wizFrameIndex, wizAborted, wizInputs,
                   nonWizVars>>

\* main_task ends: Quit or the end of the stream (ok), or an error (`?`)
WizMainEnd(outcome) ==
    /\ wizMainPc = "select"
    /\ wizMainPc' = outcome
    /\ UNCHANGED <<wizRunPc, wizRet, wizProcPc, ctx_state, ctx_current_task, wizTasks,
                   process_task, shared_panes, wizDrawn, wizSpinPc, wizFrameIndex,
                   wizAborted, wizInputs, nonWizVars>>

\* wiz.evaluate, first part: the current task is aborted, the process task
\* for the query spawned
WizProcQuery ==
    /\ wizProcPc = "select"
    /\ "processor_task" \notin wizAborted
    /\ wizInputs < MaxWizInputs
    /\ wizInputs' = wizInputs + 1
    /\ wizTasks' = Append(WizAbortCurrent, [pc |-> "spawned", aborted |-> FALSE])
    /\ ctx_current_task' = None
    /\ process_task' = Some(Len(wizTasks) + 1)
    /\ wizProcPc' = "store"
    /\ UNCHANGED <<wizRunPc, wizRet, wizMainPc, ctx_state, shared_panes, wizDrawn,
                   wizSpinPc, wizFrameIndex, wizAborted, nonWizVars>>

\* the resize arm that also puts the initial pane back into panes[Data]
WizProcResize_ResetsData ==
    /\ wizProcPc = "select"
    /\ "processor_task" \notin wizAborted
    /\ wizInputs < MaxWizInputs
    /\ wizInputs' = wizInputs + 1
    /\ shared_panes' = [shared_panes EXCEPT !["Editor"] = <<"editor", "processor_task">>,
                                            !["Data"] = <<"editor", "processor_task">>]
    /\ wizDrawn' = WizDraw(shared_panes')
    /\ wizProcPc' = "write_on_resize"
    /\ UNCHANGED <<wizRunPc, wizRet, wizMainPc, ctx_state, ctx_current_task, wizTasks,
                   process_task, wizSpinPc, wizFrameIndex, wizAborted, nonWizVars>>

\* the resize arm: the editor's pane is made for the new area, written to
\* panes[Editor] and drawn
WizProcResize ==
    /\ wizProcPc = "select"
    /\ "processor_task" \notin wizAborted
    /\ wizInputs < MaxWizInputs
    /\ wizInputs' = wizInputs + 1
    /\ shared_panes' = [shared_panes EXCEPT !["Editor"] = <<"editor", "processor_task">>]
    /\ wizDrawn' = WizDraw(shared_panes')
    /\ wizProcPc' = "write_on_resize"
    /\ UNCHANGED <<wizRunPc, wizRet, wizMainPc, ctx_state, ctx_current_task, wizTasks,
                   process_task, wizSpinPc, wizFrameIndex, wizAborted, nonWizVars>>

\* wiz.write_on_resize, first part: the area is stored, the current task
\* aborted, the process task for the editor's text spawned
WizProcWriteOnResize ==
    /\ wizProcPc = "write_on_resize"
    /\ wizTasks' = Append(WizAbortCurrent, [pc |-> "spawned", aborted |-> FALSE])
    /\ ctx_current_task' = None
    /\ process_task' = Some(Len(wizTasks) + 1)
    /\ wizProcPc' = "store"
    /\ UNCHANGED <<wizRunPc, wizRet, wizMainPc, ctx_state, shared_panes, wizDrawn,
                   wizSpinPc, wizFrameIndex, wizAborted, wizInputs, nonWizVars>>

\* evaluate / write_on_resize, last part: `current_task = Some(process_task)`
WizProcStore ==
    /\ wizProcPc = "store"
    /\ ctx_current_task' = process_task
    /\ process_task' = None
    /\ wizProcPc' = "select"
    /\ UNCHANGED <<wizRunPc, wizRet, wizMainPc, ctx_state, wizTasks, shared_panes,
                   wizDrawn, wizSpinPc, wizFrameIndex, wizAborted, wizInputs, nonWizVars>>

\* the aborted processor_task is dropped (the handle it had not yet stored is
\* dropped with it, which detaches the process task)
WizProcCancel ==
    /\ "processor_task" \in wizAborted
    /\ wizProcPc \in {"select", "write_on_resize", "store"}
    /\ wizProcPc' = "cancelled"
    /\ process_task' = None
    /\ UNCHANGED <<wizRunPc, wizRet, wizMainPc, ctx_state, ctx_current_task, wizTasks,
                   shared_panes, wizDrawn, wizSpinPc, wizFrameIndex, wizAborted, wizInputs,
                   nonWizVars>>

\* a process task is polled for the first time: state = ProcessQuery, then it
\* awaits the visualizer
WizTaskStart(t) ==
    /\ wizTasks[t].pc = "spawned"
    /\ ~wizTasks[t].aborted
    /\ ctx_state' = "ProcessQuery"
    /\ wizTasks' = [wizTasks EXCEPT ![t].pc = "create_pane"]
    /\ UNCHANGED <<wizRunPc, wizRet, wizMainPc, wizProcPc, ctx_current_task, process_task,
                   shared_panes, wizDrawn, wizSpinPc, wizFrameIndex, wizAborted, wizInputs,
                   nonWizVars>>

\* create_pane_from has returned: with the three locks held the result is
\* written to panes[Data], the state set to Idle, the panes drawn
WizTaskFinish(t) ==
    /\ wizTasks[t].pc = "create_pane"
    /\ ~wizTasks[t].aborted
    /\ shared_panes' = [shared_panes EXCEPT !["Data"] = WizResultPane(t)]
    /\ ctx_state' = "Idle"
    /\ wizDrawn' = WizDraw(shared_panes')
    /\ wizTasks' = [wizTasks EXCEPT ![t].pc = "finished"]
    /\ UNCHANGED <<wizRunPc, wizRet, wizMainPc, wizProcPc, ctx_current_task, process_task,
                   wizSpinPc, wizFrameIndex, wizAborted, wizInputs, nonWizVars>>

\* an aborted process task is dropped
WizTaskCancel(t) ==
    /\ wizTasks[t].aborted
    /\ wizTasks[t].pc \in {"spawned", "create_pane"}
    /\ wizTasks' = [wizTasks EXCEPT ![t].pc = "cancelled"]
    /\ UNCHANGED <<wizRunPc, wizRet, wizMainPc, wizProcPc, ctx_state, ctx_current_task,
                   process_task, shared_panes, wizDrawn, wizSpinPc, wizFrameIndex,
                   wizAborted, wizInputs, nonWizVars>>

\* the spin task's interval ticks: the state is read under the context lock,
\* the lock released; unless the state is Idle (`continue`) the frame index
\* advances
WizSpinTick ==
    /\ wizSpinPc = "tick"
    /\ "spinning" \notin wizAborted
    /\ ctx_state # "Idle"
    /\ wizFrameIndex' = (wizFrameIndex + 1) % LoadingFrames
    /\ wizSpinPc' = "write"
    /\ UNCHANGED <<wizRunPc, wizRet, wizMainPc, wizProcPc, ctx_state, ctx_current_task,
                   wizTasks, process_task, shared_panes, wizDrawn, wizAborted, wizInputs,
                   nonWizVars>>

\* the spin task locks the panes and the terminal, writes the frame to
\* panes[Data] and draws
WizSpinWrite ==
    /\ wizSpinPc = "write"
    /\ shared_panes' = [shared_panes EXCEPT !["Data"] = WizFramePane(wizFrameIndex)]
    /\ wizDrawn' = WizDraw(shared_panes')
    /\ wizSpinPc' = "tick"
    /\ UNCHANGED <<wizRunPc, wizRet, wizMainPc, wizProcPc, ctx_state, ctx_current_task,
                   wizTasks, process_task, wizFrameIndex, wizAborted, wizInputs, nonWizVars>>

\* the aborted spin task is dropped
WizSpinCancel ==
    /\ "spinning" \in wizAborted
    /\ wizSpinPc \in {"tick", "write"}
    /\ wizSpinPc' = "cancelled"
    /\ UNCHANGED <<wizRunPc, wizRet, wizMainPc, wizProcPc, ctx_state, ctx_current_task,
                   wizTasks, process_task, shared_panes, wizDrawn, wizFrameIndex,
                   wizAborted, wizInputs, nonWizVars>>

WizardInit ==
    /\ WizardIdle
    /\ SessionIdle
    /\ CoordinatorIdle
    /\ SnapshotIdle
    /\ SyncIdle
    /\ LoadingIdle
    /\ EvaluatorIdle
    /\ OrchestratorIdle
    /\ GroupIdle
    /\ RunInit
    /\ impl = "TimeBasedOperator"

WizardNext ==
    \/ WizRunLoading
    \/ \E ok \in BOOLEAN : WizRunLoaded(ok)
    \/ \E ok \in BOOLEAN : WizRunInitPane(ok)
    \/ WizRunJoin
    \/ WizMainKey
    \/ \E outcome \in {"ok", "err"} : WizMainEnd(outcome)
    \/ WizProcQuery
    \/ WizProcResize
    \/ WizProcWriteOnResize
    \/ WizProcStore
    \/ WizProcCancel
    \/ \E t \in 1..MaxWizInputs :
          /\ t <= Len(wizTasks)
          /\ \/ WizTaskStart(t)
             \/ WizTaskFinish(t)
             \/ WizTaskCancel(t)
    \/ WizSpinTick
    \/ WizSpinWrite
    \/ WizSpinCancel

SpecWizard == WizardInit /\ [][WizardNext]_vars

(***************************************************************************)
(* Claims about the Wizard, the Spinner and the panes of run.              *)
(***************************************************************************)
\* a process task can still run: neither finished nor aborted
WizLive(t) == wizTasks[t].pc \in {"spawned", "create_pane"} /\ ~wizTasks[t].aborted

\* run returned Ok, after its teardown, with a process task still in flight
WizInFlightAfterOkReturn ==
    /\ wizRet = Some("Ok")
    /\ \E t \in 1..Len(wizTasks) : WizLive(t) /\ wizTasks[t].pc = "create_pane"

\* C31 (as claimed): when run returns, every task started during the session
\* (the spin task, processor_task, every process task spawned by evaluate or
\* write_on_resize) has been aborted or has ended, and no pane is written or
\* drawn after run has returned.
C31_Claimed_AllTasksAbortedOnReturn ==
    /\ [](wizRet # None =>
            /\ wizAborted = WizHandles
            /\ \A t \in 1..Len(wizTasks) : ~WizLive(t))
    /\ [][wizRet # None => (shared_panes' = shared_panes /\ wizDrawn' = wizDrawn)]_vars

\* C38 (as claimed): once a process task has written its result into
\* panes[Data] and set the state to Idle, the spin task does not overwrite the
\* result with a loading frame: while the state is Idle and panes[Data] shows a
\* result, no step puts a frame there.
C38_Claimed_SpinnerNeverOverwritesResult ==
    [][(ctx_state = "Idle" /\ shared_panes["Data"][1] = "result") =>
          shared_panes'["Data"][1] # "frame"]_vars

\* the loading frame stays: the state is Idle, nothing is spawned or pending, the
\* spin task is back at its tick, and panes[Data] shows a frame
WizFrameLeftOverResult ==
    /\ ctx_state = "Idle"
    /\ wizInputs = MaxWizInputs
    /\ wizProcPc = "select"
    /\ \A t \in 1..Len(wizTasks) : wizTasks[t].pc \in {"finished", "cancelled"}
    /\ wizSpinPc = "tick"
    /\ shared_panes["Data"][1] = "frame"

C32_CoordinatorPaneTouchesOnlyItsSlot ==
    /\ [](DOMAIN panes = Slots)
    /\ [][PaneArrives =>
            LET v == Head(indexed_pane_rx)[1]
                index == Head(indexed_pane_rx)[2]
            IN /\ \A j \in Slots \ {index} : panes'[j] = panes[j]
               /\ v >= version =>
                    /\ panes'[index] = Head(indexed_pane_rx)[3]
                    /\ dcDrawn' = Some(panes') \/ dcPc' = "err"]_vars

====
